---- MODULE Spec2Model ----
(***************************************************************************)
(* A model of rlox: the compiler from the statement tree to bytecode       *)
(* (bytecode_interpreter/convertor.rs, environment.rs), the stack virtual  *)
(* machine (bytecode_interpreter/vm.rs) and the driver (lox.rs, repl.rs).  *)
(*                                                                         *)
(* Numbers are rationals [n, d] (the f64 values that the programs of the   *)
(* model produce are exactly representable); strings are TLA+ strings.     *)
(* A Rust panic (unwrap on None/Err, index out of range, todo!()) is the   *)
(* outcome "panic": it ends the process.                                   *)
(***************************************************************************)
EXTENDS Integers, Sequences, FiniteSets, TLC

VARIABLES
    mode,        \* RLOX_RUN_MODE: "none" before the driver sets it, "F", "R"
    pc,          \* the driver's position
    source,      \* the source text being processed (a sequence of items)
    tokens,      \* Scanner::tokens
    had_error,   \* lox.rs HAD_ERROR
    function,    \* the Function the convertor returned for the current source
    stack,       \* VirtualMachine::stack
    globals,     \* VirtualMachine::globals
    frames,      \* VirtualMachine::frames
    frame,       \* the local `frame` of VirtualMachine::run
    out,         \* what Print wrote to stdout since the source was read
    diagnostics, \* what Lox::error reported since the source was read
    phases,      \* the phases started for the current source, in order
    lines,       \* REPL: for each line finished so far, whether it reported
                 \* an error
    stmts,       \* the statement list Parser::parse returned
    LAMBDA_ID,   \* the static LAMBDA_ID of types.rs
    scopes,      \* a Scopes table driven directly (SpecScopes)
    emitted,     \* the last Scopes operation and what it returned (SpecScopes)
    declared,    \* per open block, the locals declared in it (SpecScopes)
    loop_depths, \* the saved values of Convertor::loop_body_depth (SpecScopes)
    warnings,    \* the unused-variable warnings Resolver::resolve printed
    unit         \* a Scanner or a Parser driven directly on a text or a token
                 \* list (SpecScan, SpecParse)

vars == <<mode, pc, source, tokens, had_error, function, stack, globals,
          frames, frame, out, diagnostics, phases, lines, stmts, LAMBDA_ID,
          scopes, emitted, declared, loop_depths, warnings, unit>>

(***************************************************************************)
(* Literal: the value domain (types.rs)                                    *)
(***************************************************************************)
Nil == [t |-> "Nil"]
Bool(b) == [t |-> "Bool", b |-> b]
Str(s) == [t |-> "Str", s |-> s]
Func(f) == [t |-> "Func", f |-> f]

Abs(x) == IF x < 0 THEN -x ELSE x

RECURSIVE Gcd(_, _)
Gcd(a, b) == IF b = 0 THEN a ELSE Gcd(b, a % b)

\* the rational n/d in lowest terms with a positive denominator
Rat(n, d) ==
    LET g == Gcd(Abs(n), Abs(d))
        s == IF d < 0 THEN -1 ELSE 1
    IN  [t |-> "Num", n |-> (s * n) \div g, d |-> (s * d) \div g]

Num(n) == [t |-> "Num", n |-> n, d |-> 1]

is_num(v) == v.t = "Num"
is_string(v) == v.t = "Str"

is_true(v) ==
    CASE v.t = "Bool" -> v.b
      [] v.t = "Nil" -> FALSE
      [] OTHER -> TRUE

\* impl PartialEq for Function: name and arity
FunctionEq(f, g) == f.name = g.name /\ f.arity = g.arity

\* #[derive(PartialEq)] on Literal
LiteralEq(a, b) ==
    /\ a.t = b.t
    /\ CASE a.t = "Num" -> a.n = b.n /\ a.d = b.d
         [] a.t = "Str" -> a.s = b.s
         [] a.t = "Bool" -> a.b = b.b
         [] a.t = "Func" -> FunctionEq(a.f, b.f)
         [] OTHER -> TRUE

\* impl Display for Literal. A number that is not an integer is shown as
\* "n/d" here (the decimal expansion f64 prints is not modelled).
to_string(v) ==
    CASE v.t = "Str" -> v.s
      [] v.t = "Num" -> IF v.d = 1 THEN ToString(v.n)
                        ELSE ToString(v.n) \o "/" \o ToString(v.d)
      [] v.t = "Bool" -> IF v.b THEN "true" ELSE "false"
      [] v.t = "Nil" -> "nil"
      [] OTHER -> IF v.f.func_type = "Lambda" THEN "<func Lambda>"
                  ELSE "<func " \o v.f.name \o ">"

NumAdd(a, b) == Rat(a.n * b.d + b.n * a.d, a.d * b.d)
NumSub(a, b) == Rat(a.n * b.d - b.n * a.d, a.d * b.d)
NumMul(a, b) == Rat(a.n * b.n, a.d * b.d)
NumDiv(a, b) == Rat(a.n * b.d, a.d * b.n)
NumLess(a, b) == a.n * b.d < b.n * a.d
\* The width of the integer type of `as i64`. Rust's i64 has 64 bits; the
\* model keeps the type's shape (two's complement range, saturating cast,
\* overflowing MIN % -1) at a width the model checker's integers can hold.
I64Bits == 7
I64Max == 2^(I64Bits - 1) - 1
I64Min == -(2^(I64Bits - 1))
\* truncation toward zero
Trunc(a) == IF a.n >= 0 THEN a.n \div a.d ELSE -((-a.n) \div a.d)
\* `as i64` on a float: truncation toward zero, saturating at the bounds of
\* the type
AsI64(a) ==
    IF Trunc(a) > I64Max THEN I64Max
    ELSE IF Trunc(a) < I64Min THEN I64Min
    ELSE Trunc(a)
\* Rust's % on i64: the remainder has the sign of the dividend
RemI64(x, y) == IF x >= 0 THEN x % Abs(y) ELSE -((-x) % Abs(y))
\* i64::MIN % -1 overflows: Rust panics ("attempt to calculate the remainder
\* with overflow") whatever the build's overflow checks
RemOverflows(x, y) == x = I64Min /\ y = -1

(***************************************************************************)
(* OpCode (opcode.rs): [op, a], a = 0 for an opcode without operand        *)
(***************************************************************************)
Op(o) == [op |-> o, a |-> 0]
OpA(o, x) == [op |-> o, a |-> x]

(***************************************************************************)
(* The value stack (vm.rs 27-55). Sequences are 1-based: stack[i + 1] is   *)
(* Rust's stack[i].                                                        *)
(***************************************************************************)
Front(s) == SubSeq(s, 1, Len(s) - 1)
Last(s) == s[Len(s)]
Take(s, k) == SubSeq(s, 1, k)
SetTop(s, v) == [s EXCEPT ![Len(s)] = v]

\* stack_nth(i) is stack.get(len - i - 1).unwrap(): defined iff i < len
HasNth(s, i) == i < Len(s)
stack_nth(s, i) == s[Len(s) - i]

\* the result of an operation on the stack
Ok(s) == [r |-> "ok", stack |-> s]
Err(s, m) == [r |-> "err", stack |-> s, msg |-> m, lexeme |-> ""]
\* .map_err(|e| self.create_runtime_error(&frame, op, e))
map_err(res, op) == IF res.r = "err" THEN [res EXCEPT !.lexeme = op] ELSE res
Panic(s) == [r |-> "panic", stack |-> s]

(***************************************************************************)
(* The binary operations of the VM (vm.rs 57-149). Each takes the stack    *)
(* and returns Ok, Err (a runtime error) or Panic.                         *)
(***************************************************************************)
binary_add(s) ==
    IF Len(s) = 0 THEN Panic(s)                      \* pop().unwrap()
    ELSE LET right == Last(s)
             s1 == Front(s)
         IN  IF ~HasNth(s1, 1) THEN Panic(s1)        \* stack_nth(1)
             ELSE IF is_num(stack_nth(s1, 1)) /\ is_num(right)
             THEN IF ~is_num(Last(s1)) THEN Panic(s1)    \* get_num().unwrap()
                  ELSE Ok(SetTop(s1, NumAdd(Last(s1), right)))
             ELSE IF is_string(stack_nth(s1, 1))
             THEN IF ~is_string(Last(s1)) THEN Panic(s1) \* get_string().unwrap()
                  ELSE Ok(SetTop(s1, Str(Last(s1).s \o to_string(right))))
             ELSE Err(s1, "Operands must be two numbers or two strings.")

\* the shape shared by binary_sub, binary_multi, binary_less, binary_greater
NumericBinary(s, f(_, _)) ==
    IF ~HasNth(s, 1) THEN Panic(s)
    ELSE IF is_num(stack_nth(s, 1)) /\ is_num(stack_nth(s, 0))
    THEN LET right == Last(s)
             s1 == Front(s)
         IN  Ok(SetTop(s1, f(Last(s1), right)))
    ELSE Err(s, "Operands must be two numbers")

binary_sub(s) == NumericBinary(s, NumSub)
binary_multi(s) == NumericBinary(s, NumMul)
binary_less(s) == NumericBinary(s, LAMBDA l, r: Bool(NumLess(l, r)))
binary_greater_or_equal(s) ==
    NumericBinary(s, LAMBDA l, r: Bool(~NumLess(l, r)))
binary_greater(s) == NumericBinary(s, LAMBDA l, r: Bool(NumLess(r, l)))

binary_div(s) ==
    IF ~HasNth(s, 1) THEN Panic(s)
    ELSE IF is_num(stack_nth(s, 1)) /\ is_num(stack_nth(s, 0))
    THEN LET right == Last(s)
             s1 == Front(s)
         IN  IF right.n = 0 THEN Err(s1, "divisor cannot be 0.")
             ELSE Ok(SetTop(s1, NumDiv(Last(s1), right)))
    ELSE Err(s, "Operands must be two numbers")

binary_mod(s) ==
    IF ~HasNth(s, 1) THEN Panic(s)
    ELSE IF is_num(stack_nth(s, 1)) /\ is_num(stack_nth(s, 0))
    THEN LET right == AsI64(Last(s))
             s1 == Front(s)
             left == AsI64(Last(s1))
         IN  IF right = 0 THEN Err(s1, "divisor cannot be 0.")
             ELSE IF RemOverflows(left, right) THEN Panic(s1)
             ELSE Ok(SetTop(s1, Num(RemI64(left, right))))
    ELSE Err(s, "Operands must be two numbers")

binary_eq(s) ==
    IF Len(s) < 2 THEN Panic(s)         \* pop().unwrap(), stack_top_ref()
    ELSE LET right == Last(s)
             s1 == Front(s)
         IN  Ok(SetTop(s1, Bool(LiteralEq(Last(s1), right))))

(***************************************************************************)
(* One opcode other than Call and Return (vm.rs 167-298), on the stack `s`,*)
(* the globals `g` and the frame base `base`. The result adds the globals, *)
(* the text printed and the change of the instruction pointer.             *)
(***************************************************************************)
With(res, g, printed, jump) ==
    [r |-> res.r, stack |-> res.stack, globals |-> g,
     printed |-> printed, jump |-> jump,
     msg |-> IF res.r = "err" THEN res.msg ELSE "",
     lexeme |-> IF res.r = "err" THEN res.lexeme ELSE ""]

Plain(res, g) == With(res, g, <<>>, 0)

ArithOps == {"Add", "Sub", "Mul", "Div", "Mod", "Negate", "Not", "Eq",
             "Less", "Greater"}
StackOps == {"Load", "Pop", "Print"}
VarOps == {"DefineGlobal", "GetGlobal", "SetGlobal", "GetLocal", "SetLocal"}
JumpOps == {"Jump", "JumpForward", "JumpIfTrue", "JumpIfFalse"}

\* format!("Undefined variable `{}`.", &name), without the quotes
UndefinedVariable(name) == "Undefined variable " \o name \o "."

\* a variant of the SetGlobal arm that binds a name it does not find
SetGlobalInserting(c, s, g) ==
    IF Len(s) = 0 THEN Plain(Panic(s), g)
    ELSE Plain(Ok(s), [n \in DOMAIN g \cup {c.a} |->
                          IF n = c.a THEN Last(s) ELSE g[n]])

\* OpCode::SetGlobal (vm.rs 252-266)
SetGlobal(c, s, g) ==
    IF c.a \in DOMAIN g
    THEN IF Len(s) = 0 THEN Plain(Panic(s), g)   \* stack_top_clone
         ELSE Plain(Ok(s), [g EXCEPT ![c.a] = Last(s)])
    ELSE Plain(map_err(Err(s, UndefinedVariable(c.a)), c.a), g)

ExecOp(c, s, g, base) ==
    CASE c.op = "Load" -> Plain(Ok(Append(s, c.a)), g)
      [] c.op = "Negate" ->
            IF Len(s) = 0 THEN Plain(Panic(s), g)
            ELSE IF is_num(Last(s))
                 THEN Plain(Ok(SetTop(s, Rat(-Last(s).n, Last(s).d))), g)
                 ELSE Plain(map_err(Err(s, "Operator `-`'s Operand must be number!"),
                                    "-"), g)
      [] c.op = "Add" -> Plain(map_err(binary_add(s), "+"), g)
      [] c.op = "Sub" -> Plain(map_err(binary_sub(s), "-"), g)
      [] c.op = "Mul" -> Plain(map_err(binary_multi(s), "*"), g)
      [] c.op = "Div" -> Plain(map_err(binary_div(s), "/"), g)
      [] c.op = "Mod" -> Plain(map_err(binary_mod(s), "%"), g)
      [] c.op = "Not" ->
            IF Len(s) = 0 THEN Plain(Panic(s), g)
            ELSE Plain(Ok(SetTop(s, Bool(~is_true(Last(s))))), g)
      [] c.op = "Eq" -> Plain(binary_eq(s), g)
      [] c.op = "Less" -> Plain(map_err(binary_less(s), "<"), g)
      [] c.op = "Greater" -> Plain(map_err(binary_greater(s), ">"), g)
      [] c.op = "Print" ->
            IF Len(s) = 0 THEN Plain(Panic(s), g)
            ELSE With(Ok(Front(s)), g, <<to_string(Last(s))>>, 0)
      [] c.op = "Pop" ->                      \* self.stack.pop(): no unwrap
            IF Len(s) = 0 THEN Plain(Ok(s), g) ELSE Plain(Ok(Front(s)), g)
      [] c.op = "DefineGlobal" ->
            IF Len(s) = 0 THEN Plain(Panic(s), g)
            ELSE Plain(Ok(Front(s)),
                       [n \in DOMAIN g \cup {c.a} |->
                            IF n = c.a THEN Last(s) ELSE g[n]])
      [] c.op = "GetGlobal" ->
            IF c.a \in DOMAIN g THEN Plain(Ok(Append(s, g[c.a])), g)
            ELSE Plain(map_err(Err(s, UndefinedVariable(c.a)), c.a), g)
      [] c.op = "SetGlobal" -> SetGlobal(c, s, g)
      [] c.op = "GetLocal" ->
            IF c.a + base >= Len(s) THEN Plain(Panic(s), g) \* self.stack[slot]
            ELSE Plain(Ok(Append(s, s[c.a + base + 1])), g)
      [] c.op = "SetLocal" ->
            IF Len(s) = 0 \/ c.a + base >= Len(s) THEN Plain(Panic(s), g)
            ELSE Plain(Ok([s EXCEPT ![c.a + base + 1] = Last(s)]), g)
      [] c.op = "JumpIfFalse" ->
            IF Len(s) = 0 THEN Plain(Panic(s), g)
            ELSE With(Ok(s), g, <<>>, IF ~is_true(Last(s)) THEN c.a ELSE 0)
      [] c.op = "JumpIfTrue" ->
            IF Len(s) = 0 THEN Plain(Panic(s), g)
            ELSE With(Ok(s), g, <<>>, IF is_true(Last(s)) THEN c.a ELSE 0)
      [] c.op = "Jump" -> With(Ok(s), g, <<>>, c.a)
      [] c.op = "JumpForward" -> With(Ok(s), g, <<>>, -c.a)

(***************************************************************************)
(* Scopes: the compile-time table of locals (environment.rs).              *)
(* variables is a sequence of [name, depth]; var_map maps a name to the    *)
(* sequence of its (0-based) indices in variables.                         *)
(***************************************************************************)
ScopesDefault == [variables |-> <<>>, var_map |-> <<>>, depth |-> 0]

begin_scope(sc) == [sc EXCEPT !.depth = @ + 1]

\* the locals end_scope removes: the longest tail with depth > d
RECURSIVE TailDeeper(_, _)
TailDeeper(vs, d) ==
    IF Len(vs) > 0 /\ Last(vs).depth > d THEN 1 + TailDeeper(Front(vs), d)
    ELSE 0

\* var_map after popping the last index of each name removed
RECURSIVE PopIndices(_, _, _)
PopIndices(vm, vs, k) ==
    IF k = 0 THEN vm
    ELSE LET name == Last(vs).name
             vm1 == IF name \in DOMAIN vm /\ Len(vm[name]) > 0
                    THEN [vm EXCEPT ![name] = Front(@)] ELSE vm
         IN  PopIndices(vm1, Front(vs), k - 1)

\* end_scope: [scopes, codes]; the caller guarantees depth > 0
end_scope(sc) ==
    LET d == sc.depth - 1
        k == TailDeeper(sc.variables, d)
    IN  [scopes |-> [variables |-> Take(sc.variables, Len(sc.variables) - k),
                     var_map |-> PopIndices(sc.var_map, sc.variables, k),
                     depth |-> d],
         codes |-> [i \in 1..k |-> Op("Pop")]]

\* a variant that also counts the locals of the loop's own depth
will_delete_var_by_depth_inclusive(sc, depth) ==
    LET len == Cardinality({i \in 1..Len(sc.variables) :
                                depth <= sc.variables[i].depth})
    IN  [i \in 1..len |-> Op("Pop")]

will_delete_var_by_depth(sc, depth) ==
    LET len == Cardinality({i \in 1..Len(sc.variables) :
                                depth < sc.variables[i].depth})
    IN  [i \in 1..len |-> Op("Pop")]

\* a variant that looks at the newest entry of the table only
is_newest_variable_at_same_depth(sc, name, depth) ==
    /\ sc.variables # <<>>
    /\ Last(sc.variables) = [name |-> name, depth |-> depth]

is_variable_at_same_depth(sc, name, depth) ==
    /\ name \in DOMAIN sc.var_map
    /\ \E j \in 1..Len(sc.var_map[name]) :
          sc.variables[sc.var_map[name][j] + 1].depth = depth

\* define_variable: [scopes, ok]
define_variable(sc, name, depth) ==
    IF ~is_variable_at_same_depth(sc, name, depth)
    THEN LET index == Len(sc.variables)
         IN  [scopes |->
                 [sc EXCEPT
                    !.variables = Append(@, [name |-> name, depth |-> depth]),
                    !.var_map = [n \in DOMAIN @ \cup {name} |->
                                    IF n = name
                                    THEN IF n \in DOMAIN @
                                         THEN Append(@[n], index)
                                         ELSE <<index>>
                                    ELSE @[n]]],
              ok |-> TRUE]
    ELSE [scopes |-> sc, ok |-> FALSE]

\* a variant that returns the oldest live binding of the name
find_variable_outermost(sc, name) ==
    IF name \in DOMAIN sc.var_map /\ Len(sc.var_map[name]) > 0
    THEN sc.var_map[name][1]
    ELSE -1

\* find_variable: the slot index, or -1 for Err(())
find_variable(sc, name) ==
    IF name \in DOMAIN sc.var_map
    THEN LET hits == {j \in 1..Len(sc.var_map[name]) :
                         sc.variables[sc.var_map[name][j] + 1].name = name}
         IN  IF hits = {} THEN -1
             ELSE sc.var_map[name][CHOOSE j \in hits : \A h \in hits : h <= j]
    ELSE -1

(***************************************************************************)
(* The statement tree (expr.rs, stmt.rs). NoNode stands for None.          *)
(***************************************************************************)
NoNode == [k |-> "None"]
Literal(v) == [k |-> "Literal", value |-> v]
Variable(n) == [k |-> "Variable", name |-> n]
Assign(n, e) == [k |-> "Assign", name |-> n, value |-> e]
Binary(l, o, r) == [k |-> "Binary", left |-> l, op |-> o, right |-> r]
Logical(l, o, r) == [k |-> "Logical", left |-> l, op |-> o, right |-> r]
Ternary(c, t, f) == [k |-> "Ternary", cmp |-> c, true_value |-> t,
                     false_value |-> f]
Unary(o, r) == [k |-> "Unary", op |-> o, right |-> r]
Call(c, args) == [k |-> "Call", callee |-> c, arguments |-> args]
Grouping(e) == [k |-> "Grouping", expression |-> e]
LambdaExpr(ps, b) == [k |-> "Lambda", params |-> ps, body |-> b]

ExpressionStmt(e) == [k |-> "Expression", expression |-> e]
PrintStmt(e) == [k |-> "Print", expression |-> e]
VarStmt(n, init) == [k |-> "Var", name |-> n, initializer |-> init]
MultiVarStmt(vs) == [k |-> "MultiVar", vars |-> vs]
BlockStmt(ss) == [k |-> "Block", statements |-> ss]
BranchStmt(c, t, e) == [k |-> "Branch", condition |-> c, then_branch |-> t,
                        else_branch |-> e]
WhileStmt(c, b, inc) == [k |-> "While", condition |-> c, body |-> b,
                         increment |-> inc]
ContinueStmt == [k |-> "Continue"]
BreakStmt == [k |-> "Break"]
FunctionStmt(n, ps, b) == [k |-> "Function", name |-> n, params |-> ps,
                           body |-> b, function_type |-> "Normal"]
ReturnStmt(v) == [k |-> "Return", value |-> v]

\* Parser::for_statement from the point where the clauses have been parsed
\* (parser.rs 230-247): init and inc are statements or NoNode, cond an
\* expression or NoNode
for_statement(init, cond, inc, body0) ==
    LET body1 == IF inc # NoNode THEN BlockStmt(<<body0, inc>>) ELSE body0
        loop == WhileStmt(IF cond # NoNode THEN cond
                          ELSE Literal(Bool(TRUE)),
                          body1, inc)
    IN  IF init # NoNode THEN BlockStmt(<<init, loop>>) ELSE loop

(***************************************************************************)
(* Convertor: the single-pass compiler (convertor.rs). A convertor is a    *)
(* record; err is "none", "error" (an Err result, propagated by `?`) or    *)
(* "panic". marks is not in the code: it records, for every statement      *)
(* converted, where its opcodes start and end, how many entries it added   *)
(* to the scope table and, for a loop, where its body's opcodes end (cont, *)
(* kept in last_cont). lambda_id is the static LAMBDA_ID (types.rs).       *)
(***************************************************************************)
NewFunction(name, chunk, positions, arity, func_type, marks) ==
    [name |-> name, chunk |-> chunk, positions |-> positions,
     arity |-> arity, func_type |-> func_type, marks |-> marks]

ConvertorWith(name, func_type, sc, lambda_id) ==
    [name |-> name, func_type |-> func_type, chunk |-> <<>>,
     positions |-> <<>>, scopes |-> sc,
     break_position |-> <<>>, continue_position |-> <<>>,
     loop_body_depth |-> 0, is_returned |-> FALSE, err |-> "none",
     marks |-> <<>>, last_cont |-> -1, lambda_id |-> lambda_id]

\* impl Default for Convertor
ConvertorDefault(lambda_id) ==
    ConvertorWith("__main__", "Main", ScopesDefault, lambda_id)

\* Convertor::new
ConvertorNew(func_name, func_type, lambda_id) ==
    LET sc == define_variable(ScopesDefault, func_name, 0).scopes
    IN  ConvertorWith(func_name, func_type,
                      IF func_type # "Main" THEN begin_scope(sc) ELSE sc,
                      lambda_id)

\* A position is the (line, column) of a token; the model names the token
\* instead: its lexeme for a name, its type for an operator or a keyword.
\* NoPosition is (0, 0).
NoPosition == "0,0"

\* Chunk::write(opcode, position); the index it returns is Len(c.chunk)
\* before the call
WriteAt(c, code, position) ==
    [c EXCEPT !.chunk = Append(@, code),
              !.positions = Append(@, position)]

\* chunk.write(code, (0, 0))
Write(c, code) == WriteAt(c, code, NoPosition)

RECURSIVE WriteAllAt(_, _, _)
WriteAllAt(c, codes, position) ==
    IF codes = <<>> THEN c
    ELSE WriteAllAt(WriteAt(c, codes[1], position), Tail(codes), position)

WriteAll(c, codes) == WriteAllAt(c, codes, NoPosition)

Fail(c) == [c EXCEPT !.err = "error"]
Crash(c) == [c EXCEPT !.err = "panic"]

ForwardJumps == {"Jump", "JumpIfFalse", "JumpIfTrue"}

\* the offset patch_jump_opcode and the handle_*_jump functions store
patch_jump_opcode(c, index) ==
    LET cur == Len(c.chunk) - 1
    IN  IF index >= Len(c.chunk) THEN Crash(c)        \* get_mut().unwrap()
        ELSE IF c.chunk[index + 1].op \in ForwardJumps
        THEN [c EXCEPT !.chunk[index + 1].a = cur - index]
        ELSE c

handle_continue_jump(c) ==
    IF c.continue_position # <<>>
    THEN LET cur == Len(c.chunk) - 1
             pos == Last(c.continue_position)
             c1 == [c EXCEPT !.continue_position = Front(@)]
         IN  IF pos >= Len(c.chunk) THEN Crash(c1)
             ELSE IF c1.chunk[pos + 1].op = "Jump"
             THEN [c1 EXCEPT !.chunk[pos + 1].a = cur - pos]
             ELSE c1
    ELSE c

handle_break_jump(c) ==
    IF c.break_position # <<>>
    THEN IF c.continue_position = <<>> THEN Crash(c)  \* pop().unwrap()
         ELSE LET cur == Len(c.chunk) - 1
                  pos == Last(c.continue_position)
                  c1 == [c EXCEPT !.continue_position = Front(@)]
                  c2 == IF c1.chunk[pos + 1].op = "Jump"
                        THEN [c1 EXCEPT !.chunk[pos + 1].a = cur - pos]
                        ELSE c1
              IN  [c2 EXCEPT !.break_position = Front(@)]
    ELSE c

\* Convertor::begin_scope, Convertor::end_scope
ConvBeginScope(c) == [c EXCEPT !.scopes = begin_scope(@)]
ConvEndScope(c) ==
    LET r == end_scope(c.scopes)
    IN  WriteAll([c EXCEPT !.scopes = r.scopes], r.codes)

BinaryCodes(op) ==
    CASE op = "Plus" -> <<Op("Add")>>
      [] op = "Minus" -> <<Op("Sub")>>
      [] op = "Star" -> <<Op("Mul")>>
      [] op = "Slash" -> <<Op("Div")>>
      [] op = "Mod" -> <<Op("Mod")>>
      [] op = "BangEqual" -> <<Op("Eq"), Op("Not")>>
      [] op = "EqualEqual" -> <<Op("Eq")>>
      [] op = "Greater" -> <<Op("Greater")>>
      [] op = "GreaterEqual" -> <<Op("Less"), Op("Not")>>
      [] op = "Less" -> <<Op("Less")>>
      [] op = "LessEqual" -> <<Op("Greater"), Op("Not")>>
      [] OTHER -> <<>>

\* `?`: the rest of a visit, `rest`, runs on the convertor c unless c
\* carries an error
Try(c, rest(_)) == IF c.err # "none" THEN c ELSE rest(c)

\* the index chunk.write returns for the next opcode written
Here(c) == Len(c.chunk)

\* what visit_lambda_expression does with the sub-convertor's result r
\* (convertor.rs 399-406): the arity stays 0
LoadLambda(c, r) ==
    IF r.err # "none"
    THEN [c EXCEPT !.err = r.err, !.lambda_id = r.lambda_id]
    ELSE Write([c EXCEPT !.lambda_id = r.lambda_id],
               OpA("Load", Func(r.function)))

\* visit_continue_statement, visit_break_statement (convertor.rs 540-574):
\* the Pops for the locals of the loop body, then Jump(0), whose index is
\* recorded
JumpOut(c, s) ==
    LET c1 == WriteAll(c, will_delete_var_by_depth(c.scopes,
                                                   c.loop_body_depth))
    IN  IF s.k = "Continue"
        THEN [WriteAt(c1, OpA("Jump", 0), "continue") EXCEPT
                !.continue_position = Append(@, Here(c1))]
        ELSE [WriteAt(c1, OpA("Jump", 0), "break") EXCEPT
                !.break_position = Append(@, Here(c1))]

\* a variant that tests the left operand the other way round
LogicalJumpSwapped(op) == IF op = "And" THEN "JumpIfTrue" ELSE "JumpIfFalse"
\* the jump visit_logical_expression writes after the left operand
\* (convertor.rs 270-285)
LogicalJump(op) == IF op = "And" THEN "JumpIfFalse" ELSE "JumpIfTrue"

RECURSIVE convert_expression(_, _), ConvertArguments(_, _),
          VisitStatement(_, _), convert_statement(_, _),
          convert_statements(_, _), convert(_, _), DefineParams(_, _)

\* the ExprVisitor of Convertor (convertor.rs 142-407)
convert_expression(c, e) ==
    CASE e.k = "Assign" ->
            Try(convert_expression(c, e.value), LAMBDA c1 :
                IF find_variable(c1.scopes, e.name) >= 0
                THEN WriteAt(c1, OpA("SetLocal",
                                     find_variable(c1.scopes, e.name)),
                             e.name)
                ELSE WriteAt(c1, OpA("SetGlobal", e.name), e.name))
      [] e.k = "Binary" ->
            Try(convert_expression(c, e.left), LAMBDA c1 :
            Try(convert_expression(c1, e.right), LAMBDA c2 :
                IF BinaryCodes(e.op) = <<>> THEN Fail(c2)
                ELSE WriteAllAt(c2, BinaryCodes(e.op), e.op)))
      [] e.k = "Call" ->
            \* the result of converting the callee is dropped (line 229):
            \* an Err of the callee is lost, a panic is not
            Try([convert_expression(c, e.callee) EXCEPT
                    !.err = IF @ = "error" THEN "none" ELSE @], LAMBDA c1 :
            Try(ConvertArguments(c1, e.arguments), LAMBDA c2 :
                WriteAt(c2, OpA("Call", Len(e.arguments)), "paren")))
      [] e.k = "Grouping" -> convert_expression(c, e.expression)
      [] e.k = "Literal" -> WriteAt(c, OpA("Load", e.value), "literal")
      [] e.k = "Logical" ->
            IF e.op \notin {"And", "Or"} THEN Fail(c)
            ELSE Try(convert_expression(c, e.left), LAMBDA c1 :
                 Try(convert_expression(
                        Write(WriteAt(c1, OpA(LogicalJump(e.op), 0), e.op),
                              Op("Pop")),
                        e.right), LAMBDA c3 :
                     patch_jump_opcode(c3, Here(c1))))
      [] e.k = "Ternary" ->
            Try(convert_expression(c, e.cmp), LAMBDA c1 :
            Try(convert_expression(
                    Write(Write(c1, OpA("JumpIfFalse", 0)), Op("Pop")),
                    e.true_value), LAMBDA c3 :
            Try(convert_expression(
                    Write(patch_jump_opcode(Write(c3, OpA("Jump", 0)),
                                            Here(c1)),
                          Op("Pop")),
                    e.false_value), LAMBDA c5 :
                patch_jump_opcode(c5, Here(c3)))))
      [] e.k = "Unary" ->
            Try(convert_expression(c, e.right), LAMBDA c1 :
                IF e.op = "Minus" THEN WriteAt(c1, Op("Negate"), e.op)
                ELSE IF e.op = "Bang" THEN WriteAt(c1, Op("Not"), e.op)
                ELSE Fail(c1))
      [] e.k = "Variable" ->
            IF find_variable(c.scopes, e.name) >= 0
            THEN WriteAt(c, OpA("GetLocal", find_variable(c.scopes, e.name)),
                         e.name)
            ELSE WriteAt(c, OpA("GetGlobal", e.name), e.name)
      [] e.k = "Lambda" ->
            \* Function::lambda_name increments LAMBDA_ID
            LoadLambda(c, convert(DefineParams(
                                    ConvertorNew("$-" \o ToString(c.lambda_id
                                                                  + 1),
                                                 "Lambda", c.lambda_id + 1),
                                    e.params),
                                  e.body))
      [] OTHER -> Crash(c)                        \* todo!()

ConvertArguments(c, args) ==
    IF args = <<>> \/ c.err # "none" THEN c
    ELSE ConvertArguments(convert_expression(c, args[1]), Tail(args))

\* the parameters are declared at the sub-convertor's depth; the result of
\* define_variable is dropped (lines 392-397, 584-589)
DefineParams(c, params) ==
    IF params = <<>> THEN c
    ELSE DefineParams(
            [c EXCEPT !.scopes =
                define_variable(@, params[1], c.scopes.depth).scopes],
            Tail(params))

\* the Function a convertor yields (convertor.rs 62-80): Load Nil and Return
\* are appended unless a return statement was converted
Finished(c) ==
    IF c.err # "none"
    THEN [err |-> c.err, function |-> NoNode, lambda_id |-> c.lambda_id]
    ELSE [err |-> "none",
          function |->
              NewFunction(c.name,
                          IF ~c.is_returned
                          THEN c.chunk \o <<OpA("Load", Nil), Op("Return")>>
                          ELSE c.chunk,
                          IF ~c.is_returned
                          THEN c.positions \o <<NoPosition, NoPosition>>
                          ELSE c.positions,
                          0, c.func_type, c.marks),
          lambda_id |-> c.lambda_id]

\* Convertor::convert: [err, function, lambda_id]
convert(c, statements) == Finished(convert_statements(c, statements))

\* what visit_function_statement does with the sub-convertor's result r
\* (convertor.rs 591-607)
DeclareFunction(c, s, r) ==
    IF r.err # "none"
    THEN [c EXCEPT !.err = r.err, !.lambda_id = r.lambda_id]
    ELSE IF c.scopes.depth = 0
    THEN WriteAllAt([c EXCEPT !.lambda_id = r.lambda_id],
                    <<OpA("Load", Func([r.function EXCEPT
                                           !.arity = Len(s.params)])),
                      OpA("DefineGlobal", s.name)>>, s.name)
    ELSE [WriteAt(c, OpA("Load", Func([r.function EXCEPT
                                          !.arity = Len(s.params)])), s.name)
            EXCEPT !.lambda_id = r.lambda_id,
                   !.scopes = define_variable(@, s.name,
                                              c.scopes.depth).scopes]

\* the end of visit_while_statement, from handle_continue_jump on
\* (convertor.rs 522-537): c is the convertor at the loop's start, c1 the
\* one after the condition, c3 the one after the body
WhileEnd(c, s, c1, c3) ==
    Try(handle_continue_jump(c3), LAMBDA c4 :
    Try(IF s.increment # NoNode THEN convert_statement(c4, s.increment)
        ELSE c4, LAMBDA c5 :
    Try(handle_break_jump(
            Write(patch_jump_opcode(
                      Write(c5, OpA("JumpForward", Here(c5) - Here(c) + 1)),
                      Here(c1)),
                  Op("Pop"))), LAMBDA c8 :
        [c8 EXCEPT !.loop_body_depth = c.loop_body_depth,
                   !.last_cont = Here(c3)])))

\* the StmtVisitor of Convertor (convertor.rs 409-635)
VisitStatement(c, s) ==
    CASE s.k = "Expression" ->
            Try(convert_expression(c, s.expression), LAMBDA c1 :
                WriteAt(c1, Op("Pop"), "end"))
      [] s.k = "Print" ->
            Try(convert_expression(c, s.expression), LAMBDA c1 :
                WriteAt(c1, Op("Print"), "print"))
      [] s.k = "Var" ->
            Try(IF s.initializer # NoNode
                THEN convert_expression(c, s.initializer)
                ELSE WriteAt(c, OpA("Load", Nil), s.name), LAMBDA c1 :
                IF c1.scopes.depth > 0
                THEN IF define_variable(c1.scopes, s.name,
                                        c1.scopes.depth).ok
                     THEN [c1 EXCEPT !.scopes =
                              define_variable(@, s.name,
                                              c1.scopes.depth).scopes]
                     ELSE Fail(c1)
                ELSE WriteAt(c1, OpA("DefineGlobal", s.name), s.name))
      [] s.k = "MultiVar" -> convert_statements(c, s.vars)
      [] s.k = "Block" ->
            \* end_scope runs on both paths; an error is then returned
            ConvEndScope(convert_statements(ConvBeginScope(c), s.statements))
      [] s.k = "Branch" ->
            Try(convert_expression(c, s.condition), LAMBDA c1 :
            Try(convert_statement(
                    Write(Write(c1, OpA("JumpIfFalse", 0)), Op("Pop")),
                    s.then_branch), LAMBDA c3 :
                IF s.else_branch # NoNode
                THEN Try(convert_statement(
                            Write(patch_jump_opcode(
                                      Write(c3, OpA("Jump", 0)), Here(c1)),
                                  Op("Pop")),
                            s.else_branch), LAMBDA c5 :
                         patch_jump_opcode(c5, Here(c3)))
                ELSE Write(patch_jump_opcode(c3, Here(c1)), Op("Pop"))))
      [] s.k = "While" ->
            Try(convert_expression(
                    [c EXCEPT !.loop_body_depth = c.scopes.depth],
                    s.condition), LAMBDA c1 :
            Try(convert_statement(
                    Write(Write(c1, OpA("JumpIfFalse", 0)), Op("Pop")),
                    s.body), LAMBDA c3 :
                WhileEnd(c, s, c1, c3)))
      [] s.k \in {"Continue", "Break"} -> JumpOut(c, s)
      [] s.k = "Function" ->
            DeclareFunction(c, s,
                convert(DefineParams(
                            ConvertorNew(s.name, "Normal", c.lambda_id),
                            s.params),
                        s.body))
      [] s.k = "Return" ->
            Try(IF s.value # NoNode
                THEN convert_expression([c EXCEPT !.is_returned = TRUE],
                                        s.value)
                ELSE WriteAt([c EXCEPT !.is_returned = TRUE],
                             OpA("Load", Nil), "return"), LAMBDA c1 :
                WriteAt(c1, Op("Return"), "return"))
      [] OTHER -> Crash(c)                        \* todo!()

\* the statement's mark, added to the convertor c1 that results from c
Marked(c, s, c1) ==
    IF c1.err # "none" THEN c1
    ELSE [c1 EXCEPT !.marks =
            Append(@, [s |-> Here(c), e |-> Here(c1),
                       decl |-> Len(c1.scopes.variables)
                                  - Len(c.scopes.variables),
                       cont |-> IF s.k = "While" THEN c1.last_cont ELSE -1,
                       k |-> s.k])]

\* Convertor::convert_statement, with the statement's mark
convert_statement(c, s) == Marked(c, s, VisitStatement(c, s))

convert_statements(c, statements) ==
    IF statements = <<>> \/ c.err # "none" THEN c
    ELSE convert_statements(convert_statement(c, statements[1]),
                            Tail(statements))

(***************************************************************************)
(* Resolver: the static checks (resolver.rs). A resolver is a record       *)
(* [function_type, is_in_while, var_use_table, err, msg, lexeme]; `?`      *)
(* stops at the first error, whose message and keyword are kept in msg and *)
(* lexeme. The messages are written without their backquotes.              *)
(***************************************************************************)
ResolverNew == [function_type |-> "Main", is_in_while |-> FALSE,
                var_use_table |-> <<>>,
                err |-> FALSE, msg |-> "", lexeme |-> ""]

\* var_use_table.insert(name, false)
variable_define(r, name) ==
    [r EXCEPT !.var_use_table =
        [n \in DOMAIN @ \cup {name} |-> IF n = name THEN FALSE ELSE @[n]]]

\* var_use_table.insert(name, true) if the table has the name
variable_used(r, name) ==
    IF name \in DOMAIN r.var_use_table
    THEN [r EXCEPT !.var_use_table[name] = TRUE]
    ELSE r

\* The orders in which `self.var_use_table.iter().filter(|(_, &used)| !used)`
\* can visit the unused names. The table is a std HashMap, whose hasher is
\* seeded at random in every process: the order of iteration is any order.
IterationOrders(table) ==
    LET unused == {n \in DOMAIN table : ~table[n]}
    IN  {order \in [1..Cardinality(unused) -> unused] :
            \A i, j \in 1..Cardinality(unused) :
                order[i] = order[j] => i = j}

\* Err(LoxError::ParseError { position, lexeme, token_type, msg }) for the
\* keyword of the statement
ResolverErr(r, keyword, msg) ==
    [r EXCEPT !.err = TRUE, !.msg = msg, !.lexeme = keyword]
JumpOutsideLoop(keyword) ==
    keyword \o " can only be used in while or for statements"
ReturnOutsideFunction == "return can only be used in a function."

RECURSIVE resolve_expression(_, _), resolve_expressions(_, _),
          resolve_statement(_, _), resolve_statements(_, _)

resolve_expression(r, e) ==
    CASE e.k = "Assign" -> resolve_expression(r, e.value)
      [] e.k \in {"Binary", "Logical"} ->
            resolve_expressions(r, <<e.left, e.right>>)
      [] e.k = "Call" -> resolve_expressions(r, <<e.callee>> \o e.arguments)
      [] e.k = "Grouping" -> resolve_expression(r, e.expression)
      [] e.k = "Ternary" ->
            resolve_expressions(r, <<e.cmp, e.true_value, e.false_value>>)
      [] e.k = "Unary" -> resolve_expression(r, e.right)
      [] e.k = "Lambda" -> resolve_statements(r, e.body)
      [] e.k = "Variable" -> variable_used(r, e.name)
      [] OTHER -> r                               \* Literal

resolve_expressions(r, es) ==
    IF es = <<>> \/ r.err THEN r
    ELSE resolve_expressions(resolve_expression(r, es[1]), Tail(es))

resolve_statement(r, s) ==
    CASE s.k \in {"Expression", "Print"} -> resolve_expression(r, s.expression)
      [] s.k = "Var" ->
            IF s.initializer # NoNode
            THEN resolve_expression(variable_define(r, s.name), s.initializer)
            ELSE variable_define(r, s.name)
      [] s.k = "MultiVar" -> resolve_statements(r, s.vars)
      [] s.k = "Block" -> resolve_statements(r, s.statements)
      [] s.k = "Branch" ->
            LET r1 == resolve_expression(r, s.condition)
                r2 == IF r1.err THEN r1
                      ELSE resolve_statement(r1, s.then_branch)
            IN  IF r2.err \/ s.else_branch = NoNode THEN r2
                ELSE resolve_statement(r2, s.else_branch)
      [] s.k = "While" ->
            LET r1 == resolve_expression(r, s.condition)
                r2 == resolve_statement([r1 EXCEPT !.is_in_while = TRUE],
                                        s.body)
                r3 == [r2 EXCEPT !.is_in_while = r1.is_in_while]
            IN  IF r1.err THEN r1
                ELSE IF r2.err THEN r2
                ELSE IF s.increment # NoNode
                THEN resolve_statement(r3, s.increment)
                ELSE r3
      [] s.k = "Continue" ->
            IF ~r.is_in_while
            THEN ResolverErr(r, "continue", JumpOutsideLoop("continue"))
            ELSE r
      [] s.k = "Break" ->
            IF ~r.is_in_while
            THEN ResolverErr(r, "break", JumpOutsideLoop("break"))
            ELSE r
      [] s.k = "Function" ->                      \* resolve_function
            LET r1 == resolve_statements(
                         [r EXCEPT !.function_type = s.function_type], s.body)
            IN  IF r1.err THEN r1
                ELSE [r1 EXCEPT !.function_type = r.function_type]
      [] s.k = "Return" ->
            IF r.function_type = "Main"
            THEN ResolverErr(r, "return", ReturnOutsideFunction)
            ELSE IF s.value # NoNode THEN resolve_expression(r, s.value)
            ELSE r
      [] OTHER -> r

resolve_statements(r, ss) ==
    IF ss = <<>> \/ r.err THEN r
    ELSE resolve_statements(resolve_statement(r, ss[1]), Tail(ss))

(***************************************************************************)
(* Scanner and parser, at the granularity the driver sees. A source is a   *)
(* sequence of items: the text of one declaration (given by its tree), the *)
(* text of a malformed declaration (BadDecl, such as `print ;`), or a      *)
(* character the scanner rejects (BadChar, such as `@`), or a comment      *)
(* (Comment, `// ...`). The tokens of an item are kept together as one     *)
(* entry of the token list.                                                *)
(***************************************************************************)
BadChar == [k |-> "BadChar"]
Comment == [k |-> "Comment"]
BadDecl == [k |-> "BadDecl"]
Eof == [k |-> "Eof"]

\* the number of items before the first the scanner does not turn into
\* tokens
RECURSIVE ScannedPrefix(_)
ScannedPrefix(src) ==
    IF src = <<>> \/ src[1] \in {BadChar, Comment} THEN 0
    ELSE 1 + ScannedPrefix(Tail(src))

\* Scanner::scan_tokens: `?` returns at the first lexical error, before the
\* Eof token is pushed. The loop of scan_token over a comment,
\* `while self.nth(0) != '\n' || !self.is_at_end() { self.advance(); }`
\* (scanner.rs 155-157), does not stop at the end of the source, where nth(0)
\* is '\0', and advance() unwraps a character that is not there: a comment
\* makes the scanner panic.
scan_tokens(src) ==
    LET k == ScannedPrefix(src)
    IN  IF k < Len(src) /\ src[k + 1] = Comment
        THEN [panic |-> TRUE, err |-> FALSE, tokens |-> Take(src, k),
              errors |-> <<>>]
        ELSE IF k < Len(src)
        THEN [panic |-> FALSE, err |-> TRUE, tokens |-> Take(src, k),
              errors |-> <<[phase |-> "scan", msg |-> "Unexpected character.",
                            lexeme |-> "", position |-> k + 1]>>]
        ELSE [panic |-> FALSE, err |-> FALSE, tokens |-> Append(src, Eof),
              errors |-> <<>>]

\* The text of the tree has a `%`. The scanner makes a Mod token of it, and
\* no method of the parser consumes that token (Parser::factor matches `*`
\* and `/` only, parser.rs 431): the statement around it ends in an Err. In
\* the sources of this model `%` stands in the expression of a statement.
RECURSIVE ModIn(_)
ModIn(e) ==
    CASE e.k = "Binary" -> e.op = "Mod" \/ ModIn(e.left) \/ ModIn(e.right)
      [] e.k = "Logical" -> ModIn(e.left) \/ ModIn(e.right)
      [] e.k = "Unary" -> ModIn(e.right)
      [] e.k \in {"Grouping", "Print", "Expression"} -> ModIn(e.expression)
      [] OTHER -> FALSE

\* a declaration that Parser::declaration answers with an Err
Malformed(item) == item = BadDecl \/ ModIn(item)

\* Parser::parse. is_at_end is peek().token_type == Eof and peek unwraps
\* tokens.get(current): a list without Eof makes the parser panic once it
\* has consumed the list. Every error of the list is collected.
parse(toks) ==
    IF toks = <<>> \/ Last(toks) # Eof THEN [r |-> "panic"]
    ELSE IF \E i \in 1..Len(toks) : Malformed(toks[i])
    THEN [r |-> "err",
          errors |-> [j \in 1..Len(SelectSeq(toks, Malformed)) |->
                        IF SelectSeq(toks, Malformed)[j] = BadDecl
                        THEN [phase |-> "parse", msg |-> "Expect expression.",
                              lexeme |-> "", position |-> j]
                        ELSE [phase |-> "parse",
                              msg |-> "Expect ';' after value",
                              lexeme |-> "%", position |-> j]]]
    ELSE [r |-> "ok", statements |-> Front(toks)]

(***************************************************************************)
(* The sources the driver is run on. A program is written as the tree the  *)
(* parser builds for it; the text is given in the comment.                 *)
(***************************************************************************)
LNum(n) == Literal(Num(n))
LStr(x) == Literal(Str(x))
LBool(b) == Literal(Bool(b))
Let(n, e) == MultiVarStmt(<<VarStmt(n, e)>>)
SetVar(n, e) == ExpressionStmt(Assign(n, e))
CallStmt(n, args) == ExpressionStmt(Call(Variable(n), args))

\* the iterations of the `for` programs, the REPL lines of a session
MaxIter == 5
MaxLines == 3

\* print 1 + 2 * 3;
PrintArith ==
    <<PrintStmt(Binary(LNum(1), "Plus", Binary(LNum(2), "Star", LNum(3))))>>

\* { let b = <below>; print <left> + <right>; }
AddBelows == {Num(0), Str("s"), Nil}
AddLefts == {Num(1), Str("a"), Nil}
AddRights == {Num(2), Str("b"), Bool(TRUE)}
AddIn(below, left, right) ==
    <<BlockStmt(<<Let("b", Literal(below)),
                  PrintStmt(Binary(Literal(left), "Plus", Literal(right)))>>)>>

\* for (let i = 0; i < n; i = i + 1) print i;                  (skip = -1)
\* for (let i = 0; i < n; i = i + 1) { if (i == skip) continue; print i; }
ForSrc(n, skip) ==
    <<for_statement(
        Let("i", LNum(0)),
        Binary(Variable("i"), "Less", LNum(n)),
        SetVar("i", Binary(Variable("i"), "Plus", LNum(1))),
        IF skip < 0 THEN PrintStmt(Variable("i"))
        ELSE BlockStmt(<<BranchStmt(Binary(Variable("i"), "EqualEqual",
                                           LNum(skip)),
                                    ContinueStmt, NoNode),
                         PrintStmt(Variable("i"))>>))>>

ForSources == {ForSrc(n, skip) : n \in 1..MaxIter, skip \in {-1, 0, 2}}

\* if (<c>) print 1;          if (<c>) print 1; else print 2;
IfNoElse(c) == <<BranchStmt(LBool(c), PrintStmt(LNum(1)), NoNode)>>
IfElse(c) == <<BranchStmt(LBool(c), PrintStmt(LNum(1)), PrintStmt(LNum(2)))>>
\* { let a = 1; if (<c>) print a; print a; }
IfInBlock(c) ==
    <<BlockStmt(<<Let("a", LNum(1)),
                  BranchStmt(LBool(c), PrintStmt(Variable("a")), NoNode),
                  PrintStmt(Variable("a"))>>)>>
\* { let i = 0; while (i < 2) { let j = i; i = j + 1; } print i; }
WhileLocal ==
    <<BlockStmt(<<Let("i", LNum(0)),
                  WhileStmt(Binary(Variable("i"), "Less", LNum(2)),
                            BlockStmt(<<Let("j", Variable("i")),
                                        SetVar("i", Binary(Variable("j"),
                                                           "Plus", LNum(1)))>>),
                            NoNode),
                  PrintStmt(Variable("i"))>>)>>
\* let x = 1; x = 2; print x; print 7 - 2 * 3; print -x; print !x;
Globals ==
    <<Let("x", LNum(1)), SetVar("x", LNum(2)), PrintStmt(Variable("x")),
      PrintStmt(Binary(LNum(7), "Minus", Binary(LNum(2), "Star", LNum(3)))),
      PrintStmt(Unary("Minus", Variable("x"))),
      PrintStmt(Unary("Bang", Variable("x")))>>
\* print 1 / 0;
DivZero == <<PrintStmt(Binary(LNum(1), "Slash", LNum(0)))>>

\* while (true) { break; }
WhileBreak == <<WhileStmt(LBool(TRUE), BlockStmt(<<BreakStmt>>), NoNode)>>
\* { let i = 0; while (i < 3) { i = i + 1; if (i == 1) continue;
\*   if (i == 2) continue; break; } print i; }
TwoContinuesBreak ==
    <<BlockStmt(<<
        Let("i", LNum(0)),
        WhileStmt(Binary(Variable("i"), "Less", LNum(3)),
                  BlockStmt(<<
                    SetVar("i", Binary(Variable("i"), "Plus", LNum(1))),
                    BranchStmt(Binary(Variable("i"), "EqualEqual", LNum(1)),
                               ContinueStmt, NoNode),
                    BranchStmt(Binary(Variable("i"), "EqualEqual", LNum(2)),
                               ContinueStmt, NoNode),
                    BreakStmt>>),
                  NoNode),
        PrintStmt(Variable("i"))>>)>>
\* for (let i = 0; i < 3; i = i + 1) { if (i == 0) continue;
\*   if (i == 1) continue; print i; }
TwoContinues ==
    <<for_statement(
        Let("i", LNum(0)),
        Binary(Variable("i"), "Less", LNum(3)),
        SetVar("i", Binary(Variable("i"), "Plus", LNum(1))),
        BlockStmt(<<BranchStmt(Binary(Variable("i"), "EqualEqual", LNum(0)),
                               ContinueStmt, NoNode),
                    BranchStmt(Binary(Variable("i"), "EqualEqual", LNum(1)),
                               ContinueStmt, NoNode),
                    PrintStmt(Variable("i"))>>))>>

\* func add(a, b) { return a + b; } print add(2, 3);
FuncAdd ==
    FunctionStmt("add", <<"a", "b">>,
                 <<ReturnStmt(Binary(Variable("a"), "Plus", Variable("b")))>>)
AddCall == <<FuncAdd, PrintStmt(Call(Variable("add"), <<LNum(2), LNum(3)>>))>>
\* func add(a, b) { return a + b; } add(1);
ArityMismatch == <<FuncAdd, CallStmt("add", <<LNum(1)>>)>>
\* func one() { return 1; } func two() { let r = one(); return r * 2; }
\* print two();
NestedCall ==
    <<FunctionStmt("one", <<>>, <<ReturnStmt(LNum(1))>>),
      FunctionStmt("two", <<>>,
                   <<Let("r", Call(Variable("one"), <<>>)),
                     ReturnStmt(Binary(Variable("r"), "Star", LNum(2)))>>),
      PrintStmt(Call(Variable("two"), <<>>))>>
\* func f(c) { if (c) return 1; else print 2; } f(<c>);
ReturnInBranch(c) ==
    <<FunctionStmt("f", <<"c">>,
                   <<BranchStmt(Variable("c"), ReturnStmt(LNum(1)),
                                PrintStmt(LNum(2)))>>),
      CallStmt("f", <<LBool(c)>>)>>
\* func g() { if (true) print 1; if (true) print 1; return 2; } g();
PopsBelowBase ==
    <<FunctionStmt("g", <<>>,
                   <<BranchStmt(LBool(TRUE), PrintStmt(LNum(1)), NoNode),
                     BranchStmt(LBool(TRUE), PrintStmt(LNum(1)), NoNode),
                     ReturnStmt(LNum(2))>>),
      CallStmt("g", <<>>)>>

\* sources the scanner does not get through, with the token list it leaves:
\*   @ #                (none)
\*   print 1; @ @       (print 1 ;)
\*   // c               (panic)
\*   print 1; // c      (panic)
\* and sources with two syntax errors:
\*   print ; print ;        print ; print 1; print ;
TwoLexicalErrors == <<BadChar, BadChar>>
TwoLexicalErrorsLater == <<PrintStmt(LNum(1)), BadChar, BadChar>>
OnlyComment == <<Comment>>
CommentLater == <<PrintStmt(LNum(1)), Comment>>
TwoSyntaxErrors == <<BadDecl, BadDecl>>
TwoSyntaxErrorsApart == <<BadDecl, PrintStmt(LNum(1)), BadDecl>>
FrontEndSources ==
    {TwoLexicalErrors, TwoLexicalErrorsLater, OnlyComment, CommentLater,
     TwoSyntaxErrors, TwoSyntaxErrorsApart}

\* sources an earlier phase rejects:  @   print 1; @   print ;
\* return 1;   break;   { let a = 1; let a = 2; }
LexicalError == <<BadChar>>
LexicalErrorLater == <<PrintStmt(LNum(1)), BadChar>>
SyntaxError == <<PrintStmt(LNum(1)), BadDecl>>
ReturnAtTop == <<ReturnStmt(LNum(1))>>
BreakAtTop == <<BreakStmt>>
Redeclared == <<BlockStmt(<<Let("a", LNum(1)), Let("a", LNum(2))>>)>>

\* let x = 0; print <a> and (x = <v>); print x;     (and the same with or)
LogicalLefts == {Bool(TRUE), Bool(FALSE), Nil, Num(0), Str("s")}
LogicalRights == {Num(7), Bool(FALSE)}
LogicalSrc(op, a, v) ==
    <<Let("x", LNum(0)),
      PrintStmt(Logical(Literal(a), op, Grouping(Assign("x", Literal(v))))),
      PrintStmt(Variable("x"))>>
LogicalSources ==
    {LogicalSrc(op, a, v) : op \in {"And", "Or"}, a \in LogicalLefts,
                            v \in LogicalRights}

\* print <l> / <r>;   print <l> % <r>;   a negative number is written -n
DivModLefts ==
    {Num(7), Num(-7), Num(0), Num(I64Min), Num(I64Max + 7), Str("s")}
DivModRights == {Num(0), Num(2), Num(-1), Num(10), Nil}
Operand(v) ==
    IF v.t = "Num" /\ v.n < 0 THEN Unary("Minus", LNum(-v.n)) ELSE Literal(v)
DivModSrc(op, l, r) == <<PrintStmt(Binary(Operand(l), op, Operand(r)))>>
DivModSources ==
    {DivModSrc(op, l, r) : op \in {"Slash", "Mod"}, l \in DivModLefts,
                           r \in DivModRights}

\* print x < y; print y < x; print x <= y; print x >= y; print x > y;
\* print x == y;
CompareNumbers == {Num(-1), Num(0), Num(1), Rat(1, 2), Num(2)}
CompareOps == <<"Less", "Less", "LessEqual", "GreaterEqual", "Greater",
                "EqualEqual">>
CompareSrc(x, y) ==
    [i \in 1..Len(CompareOps) |->
        IF i = 2 THEN PrintStmt(Binary(Operand(y), CompareOps[i], Operand(x)))
        ELSE PrintStmt(Binary(Operand(x), CompareOps[i], Operand(y)))]
CompareSources == {CompareSrc(x, y) : x, y \in CompareNumbers}
\* print <l> OP <r>;    with an operand that is not a number
OrderOps == {"Less", "LessEqual", "Greater", "GreaterEqual"}
NotNumberPairs ==
    {<<Str("a"), Num(1)>>, <<Num(1), Nil>>, <<Str("a"), Str("b")>>,
     <<Bool(TRUE), Bool(FALSE)>>}
OrderSrc(op, l, r) == <<PrintStmt(Binary(Literal(l), op, Literal(r)))>>
OrderSources ==
    {OrderSrc(op, p[1], p[2]) : op \in OrderOps, p \in NotNumberPairs}

\* func p(a) { print a; } p();      func p(a) { print a; } p(1, 2);
\* func p(a) { print a; } p(1);     let x = 1; x();
FuncPrint == FunctionStmt("p", <<"a">>, <<PrintStmt(Variable("a"))>>)
CallTooFew == <<FuncPrint, CallStmt("p", <<>>)>>
CallTooMany == <<FuncPrint, CallStmt("p", <<LNum(1), LNum(2)>>)>>
CallExact == <<FuncPrint, CallStmt("p", <<LNum(1)>>)>>
CallNotFunction == <<Let("x", LNum(1)), CallStmt("x", <<>>)>>
RejectedCalls == {ArityMismatch, CallTooFew, CallTooMany, CallNotFunction}

\* a name declared twice at one depth:
\*   { let a = 1; let a = 2; }         { func f() {} func f() {} }
\*   { let a = 1; func a() {} }        func g(a, a) {}
\* and at two depths:
\*   { let a = 1; { let a = 2; print a; } print a; }
\*   { func f() {} { func f() {} } }   func a(a) { { let a = 1; } }
RedeclaredFunc ==
    <<BlockStmt(<<FunctionStmt("f", <<>>, <<>>),
                  FunctionStmt("f", <<>>, <<>>)>>)>>
RedeclaredLetFunc ==
    <<BlockStmt(<<Let("a", LNum(1)), FunctionStmt("a", <<>>, <<>>)>>)>>
RedeclaredParam == <<FunctionStmt("g", <<"a", "a">>, <<>>)>>
RedeclaredSources ==
    {Redeclared, RedeclaredFunc, RedeclaredLetFunc, RedeclaredParam}
ShadowedLet ==
    <<BlockStmt(<<Let("a", LNum(1)),
                  BlockStmt(<<Let("a", LNum(2)), PrintStmt(Variable("a"))>>),
                  PrintStmt(Variable("a"))>>)>>
ShadowedFunc ==
    <<BlockStmt(<<FunctionStmt("f", <<>>, <<>>),
                  BlockStmt(<<FunctionStmt("f", <<>>, <<>>)>>)>>)>>
ShadowedParam ==
    <<FunctionStmt("a", <<"a">>, <<BlockStmt(<<Let("a", LNum(1))>>)>>)>>
ShadowedSources == {ShadowedLet, ShadowedFunc, ShadowedParam}

\* break / continue outside every loop body:
\*   continue;      if (true) break;      { continue; }
\*   while (false) print 1; break;        func f() { break; }
\*   break; continue;
\* and inside one, under blocks and ifs:
\*   while (true) { if (true) { { break; } } }
ContinueAtTop == <<ContinueStmt>>
BreakInBranch == <<BranchStmt(LBool(TRUE), BreakStmt, NoNode)>>
ContinueInBlock == <<BlockStmt(<<ContinueStmt>>)>>
BreakAfterLoop ==
    <<WhileStmt(LBool(FALSE), PrintStmt(LNum(1)), NoNode), BreakStmt>>
BreakInFunc == <<FunctionStmt("f", <<>>, <<BreakStmt>>)>>
BreakThenContinue == <<BreakStmt, ContinueStmt>>
NestedBreak ==
    <<WhileStmt(LBool(TRUE),
                BlockStmt(<<BranchStmt(LBool(TRUE),
                                       BlockStmt(<<BlockStmt(<<BreakStmt>>)>>),
                                       NoNode)>>),
                NoNode)>>
JumpSources ==
    {BreakAtTop, ContinueAtTop, BreakInBranch, ContinueInBlock,
     BreakAfterLoop, BreakInFunc, BreakThenContinue,
     WhileBreak, NestedBreak, TwoContinuesBreak, TwoContinues, ForSrc(2, 0)}

\* return outside every function and lambda body:
\*   return 1;       { return; }       func f() {} return 1;
\* inside a function body:
\*   func f() { return 1; }      func f() { if (true) { return 1; } }
\*   func f() { let g = func() { return 1; }; }
\* inside a lambda body at the top level:
\*   let f = func() { return 1; };        func () { return 1; }
ReturnInBlock == <<BlockStmt(<<ReturnStmt(NoNode)>>)>>
ReturnAfterFunc == <<FunctionStmt("f", <<>>, <<>>), ReturnStmt(LNum(1))>>
ReturnInFunc == <<FunctionStmt("f", <<>>, <<ReturnStmt(LNum(1))>>)>>
ReturnInFuncBranch ==
    <<FunctionStmt("f", <<>>,
                   <<BranchStmt(LBool(TRUE),
                                BlockStmt(<<ReturnStmt(LNum(1))>>),
                                NoNode)>>)>>
ReturnInFuncLambda ==
    <<FunctionStmt("f", <<>>,
                   <<Let("g", LambdaExpr(<<>>, <<ReturnStmt(LNum(1))>>))>>)>>
ReturnInLambda == <<Let("f", LambdaExpr(<<>>, <<ReturnStmt(LNum(1))>>))>>
ReturnInLambdaStmt ==
    <<ExpressionStmt(LambdaExpr(<<>>, <<ReturnStmt(LNum(1))>>))>>
TopLambdaSources == {ReturnInLambda, ReturnInLambdaStmt}
ReturnSources ==
    {ReturnAtTop, ReturnInBlock, ReturnAfterFunc, ReturnInFunc,
     ReturnInFuncBranch, ReturnInFuncLambda} \cup TopLambdaSources

\* func f(<p>, <q>) { let c = 3; print c; } f(1, 2);
\* { let g = 1; func <n>() {} let c = 3; print c; }
\* { let a = 1; { let b = 2; print a; print b; } let c = 3; print c; }
SlotParams(p, q) ==
    <<FunctionStmt("f", <<p, q>>,
                   <<Let("c", LNum(3)), PrintStmt(Variable("c"))>>),
      CallStmt("f", <<LNum(1), LNum(2)>>)>>
SlotLocalFunc(n) ==
    <<BlockStmt(<<Let("g", LNum(1)), FunctionStmt(n, <<>>, <<>>),
                  Let("c", LNum(3)), PrintStmt(Variable("c"))>>)>>
SlotNested ==
    <<BlockStmt(<<Let("a", LNum(1)),
                  BlockStmt(<<Let("b", LNum(2)), PrintStmt(Variable("a")),
                              PrintStmt(Variable("b"))>>),
                  Let("c", LNum(3)), PrintStmt(Variable("c"))>>)>>
SlotSources ==
    {SlotParams(p, q) : p, q \in {"a", "b"}}
    \cup {SlotLocalFunc(n) : n \in {"g", "h"}} \cup {SlotNested}

\* let a = 1; let b = 2;            let a = 1; let b = 2; print a + b;
\* let a = 1; let b = 2; print b;
TwoUnused == <<Let("a", LNum(1)), Let("b", LNum(2))>>
NoneUnused ==
    TwoUnused \o <<PrintStmt(Binary(Variable("a"), "Plus", Variable("b")))>>
OneUnused == TwoUnused \o <<PrintStmt(Variable("b"))>>
UnusedSources == {TwoUnused, NoneUnused, OneUnused}

\* let f = func(a) { print a; }; f(1);     let f = func() { print 1; }; f();
LambdaCall ==
    <<Let("f", LambdaExpr(<<"a">>, <<PrintStmt(Variable("a"))>>)),
      CallStmt("f", <<LNum(1)>>)>>
LambdaCallNoParams ==
    <<Let("f", LambdaExpr(<<>>, <<PrintStmt(LNum(1))>>)),
      CallStmt("f", <<>>)>>
LambdaSources == {LambdaCall, LambdaCallNoParams}

\* a `break` or `continue` in a function or lambda body that holds no loop:
\*   while (false) { func f() { break; } }
\*   while (false) { let g = func() { continue; }; }
\*   let g = func() { break; };         (and BreakInFunc: func f() { break; })
BreakInFuncInLoop ==
    <<WhileStmt(LBool(FALSE),
                BlockStmt(<<FunctionStmt("f", <<>>, <<BreakStmt>>)>>),
                NoNode)>>
ContinueInLambdaInLoop ==
    <<WhileStmt(LBool(FALSE),
                BlockStmt(<<Let("g", LambdaExpr(<<>>, <<ContinueStmt>>))>>),
                NoNode)>>
BreakInLambda == <<Let("g", LambdaExpr(<<>>, <<BreakStmt>>))>>
JumpInFunctionSources ==
    {BreakInFuncInLoop, ContinueInLambdaInLoop, BreakInLambda, BreakInFunc}

\* y = 1; print y;
AssignUndeclared == <<SetVar("y", LNum(1)), PrintStmt(Variable("y"))>>

Programs ==
    {PrintArith, WhileLocal, Globals, DivZero, WhileBreak, TwoContinuesBreak,
     TwoContinues, AddCall, ArityMismatch, NestedCall, PopsBelowBase,
     LexicalError, LexicalErrorLater, SyntaxError, ReturnAtTop, BreakAtTop,
     Redeclared}
    \cup {AddIn(b, l, r) : b \in AddBelows, l \in AddLefts, r \in AddRights}
    \cup ForSources
    \cup {IfNoElse(c) : c \in BOOLEAN} \cup {IfElse(c) : c \in BOOLEAN}
    \cup {IfInBlock(c) : c \in BOOLEAN}
    \cup {ReturnInBranch(c) : c \in BOOLEAN}
    \cup LogicalSources
    \cup DivModSources
    \cup CompareSources \cup OrderSources
    \cup RejectedCalls \cup {CallExact}
    \cup RedeclaredSources \cup ShadowedSources \cup {AssignUndeclared}
    \cup LambdaSources \cup JumpInFunctionSources
    \cup JumpSources
    \cup ReturnSources
    \cup FrontEndSources
    \cup UnusedSources
    \cup SlotSources

\* the lines typed at the prompt
\*   let x = 1;
LineDefine == <<Let("x", LNum(1))>>
\*   x = 2;
LineAssign == <<SetVar("x", LNum(2))>>
\*   print x;
LinePrint == <<PrintStmt(Variable("x"))>>
\*   x = 3; print y;                      (runtime error after the assignment)
LineRuntimeError == <<SetVar("x", LNum(3)), PrintStmt(Variable("y"))>>
\*   func h() { print 1 / 0; } h(); x = 5;    (runtime error inside a call)
LineErrorInCall ==
    <<FunctionStmt("h", <<>>,
                   <<PrintStmt(Binary(LNum(1), "Slash", LNum(0)))>>),
      CallStmt("h", <<>>), SetVar("x", LNum(5))>>
\*   { let a = 1; let a = 2; }            (compile error)
LineCompileError == Redeclared

\*   func f(c) { if (c) return 1; else print 2; } f(false);
\*                                        (f ends without a Return)
LineReturnInBranch == ReturnInBranch(FALSE)

ReplLines == {LineDefine, LineAssign, LinePrint, LineRuntimeError,
              LineErrorInCall, LineCompileError, SyntaxError, LexicalError,
              LineReturnInBranch}

(***************************************************************************)
(* CallFrame (vm.rs 583-610). Beside function, ip and slot a frame of the  *)
(* model carries what the checks read and the code does not keep: argc,    *)
(* call_len, call_ip and call_fn (for a frame made by Call: the operand of *)
(* the Call, the stack length just before it, its index and the caller's   *)
(* name; argc = -1 for the frame interpret makes), prev (the index of the  *)
(* opcode executed last in this frame) and entered (for each statement of  *)
(* function.marks, the stack length when its first opcode was last reached *)
(* from outside the statement, or -1).                                     *)
(***************************************************************************)
NoFrame ==
    [function |-> NoNode, ip |-> 0, slot |-> 0, argc |-> -1, call_len |-> 0,
     call_ip |-> -1, call_fn |-> "", prev |-> -1, entered |-> <<>>]

CallFrameNew(f, ip, slot) ==
    [function |-> f, ip |-> ip, slot |-> slot, argc |-> -1, call_len |-> 0,
     call_ip |-> -1, call_fn |-> "", prev |-> -1,
     entered |-> [j \in 1..Len(f.marks) |-> -1]]

\* the frame f reaches f.ip with `depth` values on the stack
Arrive(f, depth) ==
    [f EXCEPT !.entered =
        [j \in 1..Len(f.entered) |->
            LET m == f.function.marks[j]
            IN  IF m.s = f.ip /\ m.s < m.e /\ (f.prev < m.s \/ f.prev >= m.e)
                THEN depth ELSE f.entered[j]]]

\* the slot a Call gives the callee's frame (vm.rs 310), and a variant that
\* leaves the callee itself below the frame
CallSlotAboveCallee(len, arity) == len - arity
CallSlot(len, arity) == len - arity - 1

\* What `unsafe { self.stack.set_len(n) }` leaves (vm.rs 205-207). A shorter
\* length truncates. A longer one exposes slots whose values were popped
\* before (undefined behaviour): each reads as some Literal, or as a value
\* (Wild) whose use ends the process.
Wild == [t |-> "Wild"]
GarbageValues == {Nil, Num(0), Wild}
set_len(s, n, garbage) ==
    IF n <= Len(s) THEN Take(s, n)
    ELSE s \o [i \in 1..(n - Len(s)) |-> garbage]

\* the stack entries (1-based) an opcode reads or drops
Reads(c, s, base) ==
    LET n == Len(s)
    IN  CASE c.op = "Add" -> {n, n - 1, n - 2}
          [] c.op \in {"Sub", "Mul", "Div", "Mod", "Eq", "Less", "Greater"} ->
                {n, n - 1}
          [] c.op \in {"Negate", "Not", "Print", "Pop", "DefineGlobal",
                       "SetGlobal", "JumpIfFalse", "JumpIfTrue"} -> {n}
          [] c.op = "GetLocal" -> {base + c.a + 1}
          [] c.op = "SetLocal" -> {n, base + c.a + 1}
          [] c.op = "Call" -> {n - c.a}
          [] c.op = "Return" -> {n - 1}
          [] OTHER -> {}

ReadsWild(c, s, base) ==
    \E i \in Reads(c, s, base) \cap (1..Len(s)) : s[i] = Wild

\* the Err arm of VirtualMachine::interpret (vm.rs 558-561) on the VM
\* [stack, globals, frames]: stack.clear(); and a variant that resets the
\* whole VM
interpret_err_resets_vm(vm) == [stack |-> <<>>, globals |-> <<>>,
                                frames |-> <<>>]
interpret_err(vm) == [vm EXCEPT !.stack = <<>>]

(***************************************************************************)
(* The driver (lox.rs, repl.rs) and the VM's run loop (vm.rs 151-538) as   *)
(* a state machine. pc is the driver's position: "ready", "readline",      *)
(* "scan", "parse", "resolve", "convert", "interpret", "run" (inside the   *)
(* loop of VirtualMachine::run), "end_run" (Lox::run is returning),        *)
(* "exit", "panic".                                                        *)
(***************************************************************************)
NoScopesOp == [op |-> "none", codes |-> <<>>, before |-> ScopesDefault,
               ok |-> TRUE]

Init ==
    /\ mode = "none" /\ pc = "ready"
    /\ source = <<>> /\ tokens = <<>> /\ stmts = <<>>
    /\ had_error = FALSE
    /\ function = NoNode
    /\ stack = <<>> /\ globals = <<>> /\ frames = <<>> /\ frame = NoFrame
    /\ out = <<>> /\ diagnostics = <<>> /\ phases = <<>> /\ lines = <<>>
    /\ LAMBDA_ID = 0
    /\ scopes = ScopesDefault /\ emitted = NoScopesOp
    /\ declared = <<>> /\ loop_depths = <<>>
    /\ warnings = <<>>
    /\ unit = NoNode

scopeVars == <<scopes, emitted, declared, loop_depths>>
vmVars == <<stack, globals, frames, frame, out>>
frontVars == <<source, tokens, stmts, function, LAMBDA_ID>>

Phase(name, err) == Append(phases, [name |-> name, err |-> err])

\* Lox::error -> Lox::report (lox.rs 101-147): one line printed per error
Diagnostic(phase, msg, lexeme, position) ==
    [phase |-> phase, msg |-> msg, lexeme |-> lexeme, position |-> position]

\* Lox::run_file up to the scan (lox.rs 35-40)
RunFile ==
    /\ pc = "ready"
    /\ \E src \in Programs : source' = src
    /\ mode' = "F" /\ pc' = "scan"
    /\ UNCHANGED <<tokens, stmts, function, LAMBDA_ID, had_error, phases,
                   lines, vmVars, diagnostics, scopeVars, warnings, unit>>

\* Lox::run_prompt, Repl::run up to the loop (lox.rs 58-61, repl.rs 56-58):
\* the machine is built once, before the loop; its type is the one of the
\* run function passed in, Lox::run (lox.rs 66), a VirtualMachine
RunPrompt ==
    /\ pc = "ready"
    /\ mode' = "R" /\ pc' = "readline"
    /\ UNCHANGED <<frontVars, had_error, phases, lines, vmVars, diagnostics,
                   scopeVars, warnings, unit>>

\* readline returns Ok(line) (repl.rs 60-67)
ReadLine ==
    /\ pc = "readline" /\ Len(lines) < MaxLines
    /\ \E src \in ReplLines : source' = src
    /\ out' = <<>> /\ diagnostics' = <<>> /\ phases' = <<>> /\ pc' = "scan"
    /\ UNCHANGED <<mode, tokens, stmts, function, LAMBDA_ID, had_error, lines,
                   stack, globals, frames, frame, scopeVars, warnings, unit>>

\* readline returns Err: the loop breaks (repl.rs 76)
ReadEof ==
    /\ pc = "readline"
    /\ pc' = "exit"
    /\ UNCHANGED <<mode, frontVars, had_error, phases, lines, vmVars,
                   diagnostics, scopeVars, warnings, unit>>

\* scan_tokens and the report of its error; Lox::run is called on
\* scanner.tokens in both cases (lox.rs 42-49, repl.rs 67-74)
Scan ==
    /\ pc = "scan"
    /\ LET r == scan_tokens(source)
       IN  /\ tokens' = r.tokens
           /\ had_error' = IF r.err THEN TRUE ELSE had_error
           /\ phases' = IF r.panic THEN phases ELSE Phase("scan", r.err)
           /\ diagnostics' = diagnostics \o r.errors
           /\ pc' = IF r.panic THEN "panic" ELSE "parse"
    /\ UNCHANGED <<mode, source, stmts, function, LAMBDA_ID, lines, vmVars,
                   scopeVars, warnings, unit>>

\* parser.parse() and its Err arm (lox.rs 69-72, 86-90)
Parse ==
    /\ pc = "parse"
    /\ LET r == parse(tokens)
       IN  /\ phases' = Phase("parse", r.r # "ok")
           /\ pc' = CASE r.r = "panic" -> "panic"
                      [] r.r = "err" -> "end_run"
                      [] OTHER -> "resolve"
           /\ had_error' = IF r.r = "err" THEN TRUE ELSE had_error
           /\ stmts' = IF r.r = "ok" THEN r.statements ELSE stmts
           /\ diagnostics' = IF r.r = "err" THEN diagnostics \o r.errors
                              ELSE diagnostics
    /\ UNCHANGED <<mode, source, tokens, function, LAMBDA_ID, lines, vmVars,
                   scopeVars, warnings, unit>>

\* resolver.resolve(&statements) and its Err arm (lox.rs 73, 84)
Resolve ==
    /\ pc = "resolve"
    /\ LET r == resolve_statements(ResolverNew, stmts)
       IN  /\ phases' = Phase("resolve", r.err)
           /\ pc' = IF r.err THEN "end_run" ELSE "convert"
           /\ had_error' = IF r.err THEN TRUE ELSE had_error
           /\ diagnostics' = IF r.err
                              THEN Append(diagnostics,
                                          Diagnostic("resolve", r.msg,
                                                     r.lexeme, r.lexeme))
                              ELSE diagnostics
           /\ \E order \in IF r.err \/ mode # "F" THEN {<<>>}
                            ELSE IterationOrders(r.var_use_table) :
                 warnings' = order
    /\ UNCHANGED <<mode, frontVars, lines, vmVars, scopeVars, unit>>

\* Convertor::default().convert(&statements) and its Err arm (lox.rs 75-81)
Convert ==
    /\ pc = "convert"
    /\ LET r == convert(ConvertorDefault(LAMBDA_ID), stmts)
       IN  /\ phases' = Phase("compile", r.err # "none")
           /\ pc' = CASE r.err = "panic" -> "panic"
                      [] r.err = "error" -> "end_run"
                      [] OTHER -> "interpret"
           /\ had_error' = IF r.err = "error" THEN TRUE ELSE had_error
           /\ function' = r.function
           /\ LAMBDA_ID' = r.lambda_id
           /\ diagnostics' = IF r.err = "error"
                              THEN Append(diagnostics,
                                          Diagnostic("compile", "", "", ""))
                              ELSE diagnostics
    /\ UNCHANGED <<mode, source, tokens, stmts, lines, vmVars, scopeVars, warnings, unit>>

\* VirtualMachine::interpret up to the loop of run: the sentinel is pushed,
\* the main frame is pushed on frames and popped again by run (vm.rs
\* 540-546, 151-153)
Interpret ==
    /\ pc = "interpret"
    /\ phases' = Phase("run", FALSE)
    /\ stack' = Append(stack, Func(function))
    /\ frame' = Arrive(CallFrameNew(function, 0, Len(stack) + 1),
                       Len(stack) + 1)
    /\ pc' = "run"
    /\ UNCHANGED <<mode, frontVars, had_error, lines, globals, frames, out,
                   diagnostics, scopeVars, warnings, unit>>

CurOp == frame.function.chunk[frame.ip + 1]

\* frame.read_opcode() returns Some(opcode)
Running == pc = "run" /\ frame.ip < Len(frame.function.chunk)

\* a panic ends the process
ProcessPanics ==
    /\ pc' = "panic"
    /\ UNCHANGED <<stack, globals, frames, frame, had_error>>

\* VirtualMachine::create_runtime_error (vm.rs 565-586): the position is
\* the one the chunk keeps for the opcode just read (ip - 1 after
\* read_opcode, f.ip here). The lines it adds for the frames are not
\* modelled.
create_runtime_error(f, op, msg) ==
    Diagnostic("run", msg, op, f.function.positions[f.ip + 1])

\* Literal::get_function (types.rs 200-208): an UnexpectedError, reported
\* without a position
get_function_error ==
    Diagnostic("run", "Expect a callable type(Function, Lambda, Class)!",
               "", NoPosition)

\* run returns Err: interpret clears the stack and Lox::run reports the
\* error (vm.rs 558-561, lox.rs 79)
RuntimeError(s, g) ==
    LET vm == interpret_err([stack |-> s, globals |-> g, frames |-> frames])
    IN  /\ stack' = vm.stack /\ globals' = vm.globals /\ frames' = vm.frames
        /\ frame' = NoFrame
        /\ had_error' = TRUE
        /\ pc' = "end_run"

\* one opcode other than Call and Return
Execute ==
    LET c == CurOp
        res == IF ReadsWild(c, stack, frame.slot)
               THEN Plain(Panic(stack), globals)
               ELSE ExecOp(c, stack, globals, frame.slot)
        ip1 == frame.ip + 1 + res.jump
    IN  /\ out' = out \o res.printed
        /\ IF res.r = "ok" /\ ip1 >= 0
           THEN /\ stack' = res.stack /\ globals' = res.globals
                /\ frame' = Arrive([frame EXCEPT !.ip = ip1,
                                                 !.prev = frame.ip],
                                   Len(res.stack))
                /\ pc' = "run"
                /\ UNCHANGED <<frames, had_error>>
           ELSE IF res.r = "err" THEN RuntimeError(res.stack, res.globals)
           ELSE ProcessPanics
        /\ diagnostics' = IF res.r = "err"
                           THEN Append(diagnostics,
                                       create_runtime_error(frame, res.lexeme,
                                                            res.msg))
                           ELSE diagnostics
        /\ UNCHANGED <<mode, frontVars, phases, lines, scopeVars, warnings, unit>>

StepStack == Running /\ CurOp.op \in StackOps /\ Execute
StepArith == Running /\ CurOp.op \in ArithOps /\ Execute
StepVar == Running /\ CurOp.op \in VarOps /\ Execute
StepJump == Running /\ CurOp.op \in JumpOps /\ Execute

\* `callee.arity != arity` (vm.rs 302), and a variant that lets a call with
\* missing arguments through
too_many_arguments(callee, arity) == callee.arity < arity
arity_differs(callee, arity) == callee.arity # arity

\* OpCode::Call (vm.rs 299-313)
StepCall ==
    /\ Running /\ CurOp.op = "Call"
    /\ LET arity == CurOp.a
       IN  IF ~HasNth(stack, arity) \/ ReadsWild(CurOp, stack, frame.slot)
           THEN ProcessPanics /\ UNCHANGED diagnostics
           ELSE IF stack_nth(stack, arity).t # "Func"
           THEN /\ RuntimeError(stack, globals)        \* get_function()?
                /\ diagnostics' = Append(diagnostics, get_function_error)
           ELSE IF arity_differs(stack_nth(stack, arity).f, arity)
           THEN /\ RuntimeError(stack, globals)
                /\ diagnostics' =
                     Append(diagnostics,
                            create_runtime_error(
                                frame, stack_nth(stack, arity).f.name,
                                "Expect " \o
                                ToString(stack_nth(stack, arity).f.arity)
                                \o " arguments but got " \o ToString(arity)
                                \o "."))
           ELSE /\ frames' = Append(frames, [frame EXCEPT !.ip = frame.ip + 1,
                                                          !.prev = frame.ip])
                /\ frame' = Arrive(
                     [CallFrameNew(stack_nth(stack, arity).f, 0,
                                   CallSlot(Len(stack), arity))
                        EXCEPT !.argc = arity, !.call_len = Len(stack),
                               !.call_ip = frame.ip,
                               !.call_fn = frame.function.name],
                     Len(stack))
                /\ pc' = "run"
                /\ UNCHANGED <<stack, globals, had_error, diagnostics>>
    /\ UNCHANGED <<mode, frontVars, phases, lines, out, scopeVars, warnings, unit>>

\* OpCode::Return (vm.rs 199-211)
StepReturn ==
    /\ Running /\ CurOp.op = "Return"
    /\ IF Len(stack) = 0 THEN ProcessPanics                  \* pop()
       ELSE IF frames = <<>>
       THEN IF Len(stack) = 1 THEN ProcessPanics             \* pop()
            ELSE IF ReadsWild(CurOp, stack, frame.slot) THEN ProcessPanics
            ELSE /\ stack' = Front(Front(stack))
                 /\ frame' = NoFrame
                 /\ pc' = "end_run"
                 /\ UNCHANGED <<globals, frames, had_error>>
       ELSE \E garbage \in IF frame.slot > Len(stack) - 1 THEN GarbageValues
                           ELSE {Nil} :
                /\ stack' = Append(set_len(Front(stack), frame.slot, garbage),
                                   Last(stack))
                /\ frame' = Arrive(Last(frames), frame.slot + 1)
                /\ frames' = Front(frames)
                /\ pc' = "run"
                /\ UNCHANGED <<globals, had_error>>
    /\ UNCHANGED <<mode, frontVars, phases, lines, out, diagnostics,
                   scopeVars, warnings, unit>>

\* frame.read_opcode() returns None: the loop ends and run returns Ok(())
RunEnd ==
    /\ pc = "run" /\ frame.ip >= Len(frame.function.chunk)
    /\ frame' = NoFrame
    /\ pc' = "end_run"
    /\ UNCHANGED <<mode, frontVars, had_error, phases, lines, stack, globals,
                   frames, out, diagnostics, scopeVars, warnings, unit>>

\* the end of Lox::run: run_file returns (lox.rs 51-55); the REPL counts the
\* line and calls no_error() (repl.rs 78-79)
EndRun ==
    /\ pc = "end_run"
    /\ IF mode = "F"
       THEN pc' = "exit" /\ UNCHANGED <<had_error, lines>>
       ELSE /\ pc' = "readline"
            /\ lines' = Append(lines, had_error)
            /\ had_error' = FALSE
    /\ UNCHANGED <<mode, frontVars, phases, vmVars, diagnostics, scopeVars, warnings, unit>>

Next ==
    \/ RunFile \/ RunPrompt \/ ReadLine \/ ReadEof
    \/ Scan \/ Parse \/ Resolve \/ Convert \/ Interpret
    \/ StepStack \/ StepArith \/ StepVar \/ StepJump \/ StepCall \/ StepReturn
    \/ RunEnd \/ EndRun

Spec == Init /\ [][Next]_vars

(***************************************************************************)
(* Properties                                                              *)
(***************************************************************************)

\* the functions of a compiled program: f and, recursively, every function
\* one of its Load opcodes holds
RECURSIVE FunctionsIn(_)
FunctionsIn(f) ==
    {f} \cup UNION {FunctionsIn(f.chunk[i].a.f) :
                      i \in {j \in 1..Len(f.chunk) :
                                /\ f.chunk[j].op = "Load"
                                /\ f.chunk[j].a.t = "Func"}}

\* the marks of the loops of f around the mark b, and the innermost of them
LoopsAround(f, b) ==
    {i \in 1..Len(f.marks) :
        /\ f.marks[i].k = "While"
        /\ f.marks[i].s <= b.s /\ b.e <= f.marks[i].e}
InnermostLoop(f, b) ==
    f.marks[CHOOSE i \in LoopsAround(f, b) :
                \A k \in LoopsAround(f, b) : f.marks[k].s <= f.marks[i].s]

\* a statement contains a `break` that belongs to a loop of the same body
RECURSIVE HasBreak(_)
HasBreak(s) ==
    CASE s.k = "Break" -> TRUE
      [] s.k = "Block" ->
            \E i \in 1..Len(s.statements) : HasBreak(s.statements[i])
      [] s.k = "Branch" ->
            IF HasBreak(s.then_branch) THEN TRUE
            ELSE IF s.else_branch = NoNode THEN FALSE
            ELSE HasBreak(s.else_branch)
      [] s.k = "While" -> HasBreak(s.body)
      [] OTHER -> FALSE

\* C1: whenever Add executes with at least two values on the stack, the two
\* topmost values alone decide the outcome, whatever lies below them: two
\* Numbers are replaced by their sum; a String on the left and any value on
\* the right are replaced by the concatenation of the string with the
\* display form of the right value; every other pair raises a runtime error.
C1_AddDependsOnOperandsOnly ==
    [][(/\ Running /\ CurOp.op = "Add" /\ Len(stack) >= 2
        /\ ~ReadsWild(CurOp, stack, frame.slot))
       => IF is_num(stack_nth(stack, 1)) /\ is_num(stack_nth(stack, 0))
          THEN /\ pc' = "run"
               /\ stack' = Append(Take(stack, Len(stack) - 2),
                                  NumAdd(stack_nth(stack, 1),
                                         stack_nth(stack, 0)))
          ELSE IF is_string(stack_nth(stack, 1))
          THEN /\ pc' = "run"
               /\ stack' = Append(Take(stack, Len(stack) - 2),
                                  Str(stack_nth(stack, 1).s
                                      \o to_string(stack_nth(stack, 0))))
          ELSE pc' = "end_run" /\ had_error']_vars

\* the statement forms C2 is about
StatementForms == {"Expression", "Print", "Var", "MultiVar", "Block",
                   "Branch", "While"}

\* the statements of the running function whose opcodes have just run to
\* their end
JustEnded ==
    {j \in 1..Len(frame.entered) :
        /\ frame.function.marks[j].k \in StatementForms
        /\ frame.function.marks[j].e = frame.ip
        /\ frame.function.marks[j].s <= frame.prev
        /\ frame.prev < frame.function.marks[j].e
        /\ frame.entered[j] >= 0}

\* C2: when the opcodes of a statement have run to their end without a
\* runtime error, the stack is as deep as it was when the statement began
\* plus the number of locals the statement declared in the enclosing scope.
C2_StatementKeepsDepth ==
    pc = "run" =>
        \A j \in JustEnded :
            Len(stack) = frame.entered[j] + frame.function.marks[j].decl

\* C3: when a frame that a Call(argc) made executes Return, the caller
\* resumes at the opcode after the Call, the stack is argc shorter than it
\* was just before the Call, and the returned value is on top.
C3_ReturnResumesCaller ==
    [][(Running /\ CurOp.op = "Return" /\ frame.argc >= 0)
       => /\ Len(stack) > 0
          /\ pc' = "run"
          /\ frame'.function.name = frame.call_fn
          /\ frame'.ip = frame.call_ip + 1
          /\ Len(stack') = frame.call_len - frame.argc
          /\ Last(stack') = Last(stack)]_vars

\* C3, witness: add(2, 3) has just returned 5 to the main program
C3_ReturnedFromAdd ==
    /\ pc = "run" /\ source = AddCall
    /\ frame.prev >= 0 /\ frame.ip = frame.prev + 1
    /\ frame.function.chunk[frame.prev + 1].op = "Call"
    /\ frame.function.chunk[frame.prev + 1].a = 2
    /\ Last(stack) = Num(5)

\* what `for (let i = 0; i < n; i = i + 1) ...` prints when the increment
\* runs once per iteration: 0 .. n-1 without skip
RECURSIVE ForExpected(_, _)
ForExpected(n, skip) ==
    IF n = 0 THEN <<>>
    ELSE IF n - 1 = skip THEN ForExpected(n - 1, skip)
    ELSE Append(ForExpected(n - 1, skip), ToString(n - 1))

\* C4: a `for` loop runs its increment exactly once per iteration, also
\* when the body is left through `continue`: the program
\* `for (let i = 0; i < n; i = i + 1) { if (i == skip) continue; print i; }`
\* ends normally having printed 0 .. n-1 without skip (for n = 5, skip = 2:
\* 0, 1, 3, 4).
C4_ForIncrementsOnce ==
    \A n \in 1..MaxIter, skip \in {-1, 0, 2} :
        (mode = "F" /\ source = ForSrc(n, skip) /\ pc \in {"exit", "panic"})
        => (pc = "exit" /\ ~had_error /\ out = ForExpected(n, skip))

\* the jump target of the Jump that ends the `break` or `continue` whose
\* mark is b: the Jump is the opcode at index b.e - 1
JumpTarget(f, b) == b.e + f.chunk[b.e].a

\* C5: a program with a `break` in a loop compiles, and in the compiled
\* functions the Jump of every `break` leads to the first opcode after the
\* exit Pop of the innermost loop around it (so none keeps the offset 0).
C5_BreakJumpsPatched ==
    /\ (/\ phases # <<>> /\ Last(phases).name = "compile"
        /\ \E i \in 1..Len(stmts) : HasBreak(stmts[i]))
       => (pc # "panic" /\ ~Last(phases).err)
    /\ function # NoNode =>
         \A f \in FunctionsIn(function) :
            \A j \in 1..Len(f.marks) :
               (f.marks[j].k = "Break" /\ LoopsAround(f, f.marks[j]) # {})
               => /\ f.chunk[f.marks[j].e].a # 0
                  /\ JumpTarget(f, f.marks[j])
                        = InnermostLoop(f, f.marks[j]).e

\* C6: in the compiled functions the Jump of every `continue` leads to the
\* end of the body of the innermost loop around it, where the increment
\* code or else the backward jump stands; so none keeps a placeholder that
\* leads elsewhere and none is patched by an enclosing loop.
C6_ContinueJumpsPatched ==
    function # NoNode =>
        \A f \in FunctionsIn(function) :
           \A j \in 1..Len(f.marks) :
              (f.marks[j].k = "Continue" /\ LoopsAround(f, f.marks[j]) # {})
              => JumpTarget(f, f.marks[j])
                    = InnermostLoop(f, f.marks[j]).cont

\* C7: in every compiled chunk a Jump, JumpIfTrue or JumpIfFalse at index i
\* with offset o has i + 1 + o < chunk length, and a JumpForward at index i
\* with offset o has o <= i + 1 (i is 0-based: the opcode is chunk[i + 1]).
C7_JumpsStayInChunk ==
    function # NoNode =>
        \A f \in FunctionsIn(function) :
           \A i \in 0..(Len(f.chunk) - 1) :
              /\ f.chunk[i + 1].op \in ForwardJumps
                    => i + 1 + f.chunk[i + 1].a < Len(f.chunk)
              /\ f.chunk[i + 1].op = "JumpForward"
                    => f.chunk[i + 1].a <= i + 1

\* C9: in REPL mode no step removes a global, and the value of a global
\* changes (or a global appears) only when DefineGlobal or SetGlobal of
\* that name executes, and then to the value on top of the stack: ending a
\* line, with or without an error, and reading the next keep the globals.
C9_GlobalsPersist ==
    [][mode = "R" =>
         /\ DOMAIN globals \subseteq DOMAIN globals'
         /\ \A n \in DOMAIN globals' :
               (IF n \in DOMAIN globals THEN globals'[n] # globals[n]
                ELSE TRUE)
               => /\ Running
                  /\ CurOp.op \in {"DefineGlobal", "SetGlobal"}
                  /\ CurOp.a = n
                  /\ Len(stack) > 0
                  /\ globals'[n] = Last(stack)]_vars

\* C9, witness: x was defined by the first line, assigned 3 by the second,
\* which then ended with a runtime error, and the third line has printed 3
C9_PrintedAfterErrorLine ==
    /\ mode = "R" /\ lines = <<FALSE, TRUE>>
    /\ source = LinePrint /\ pc = "end_run"
    /\ out = <<"3">>
    /\ "x" \in DOMAIN globals /\ globals["x"] = Num(3)

PhaseOrder == <<"scan", "parse", "resolve", "compile", "run">>

\* C10: in file mode the phases start in the order scan, parse, resolve,
\* compile, run, and a phase starts only if every phase before it completed
\* without an error.
C10_PhasesStopAtError ==
    mode = "F" =>
        /\ Len(phases) <= Len(PhaseOrder)
        /\ \A i \in 1..Len(phases) :
              /\ phases[i].name = PhaseOrder[i]
              /\ i < Len(phases) => ~phases[i].err

\* the value of `a and b` / `a or b` and whether b is evaluated
LogicalRunsRight(op, a) ==
    IF op = "And" THEN a \notin {Bool(FALSE), Nil} ELSE a \in {Bool(FALSE), Nil}
LogicalValue(op, a, v) == IF LogicalRunsRight(op, a) THEN v ELSE a

\* C11: for `a and b` with a falsy, and for `a or b` with a truthy, b's code
\* is not executed and the value is a's; otherwise the value is b's. In
\* every case exactly one value is on the stack (above the script's own
\* slot) when the expression's value is consumed. Here b is the assignment
\* x = v to a global that holds 0, so x tells whether b ran.
C11_ShortCircuit ==
    \A op \in {"And", "Or"}, a \in LogicalLefts, v \in LogicalRights :
        (mode = "F" /\ source = LogicalSrc(op, a, v)) =>
            /\ pc # "panic"
            /\ ~had_error
            /\ (Running /\ CurOp.op = "Print" /\ out = <<>>) =>
                  /\ stack = <<Func(function), LogicalValue(op, a, v)>>
                  /\ globals["x"] = IF LogicalRunsRight(op, a) THEN v
                                    ELSE Num(0)
            /\ pc = "exit" =>
                  out = <<to_string(LogicalValue(op, a, v)),
                          to_string(IF LogicalRunsRight(op, a) THEN v
                                    ELSE Num(0))>>

\* `print false and (x = 7); print x;` has printed false and 0, and
\* `print nil or (x = 7); print x;` would print 7 and 7
C11_AndSkippedRight ==
    /\ mode = "F" /\ pc = "exit"
    /\ source = LogicalSrc("And", Bool(FALSE), Num(7))
    /\ out = <<"false", "0">>

\* the remainder of truncated integer division, in the integers
TruncRem(x, y) == x - y * (IF (x >= 0) = (y >= 0) THEN Abs(x) \div Abs(y)
                           ELSE -(Abs(x) \div Abs(y)))
DivModExpected(op, l, r) ==
    IF op = "Slash" THEN Rat(l.n, r.n) ELSE Num(TruncRem(l.n, r.n))
DivModError(op, l, r) ==
    IF is_num(l) /\ is_num(r) THEN "divisor cannot be 0."
    ELSE "Operands must be two numbers"
DivModLexeme(op) == IF op = "Slash" THEN "/" ELSE "%"

\* binary_div or binary_mod has been applied to a stack that ends with the
\* operands l and r (SpecBinary); what the claim has it return
Applied == unit.k = "Operands" /\ unit.r # NoNode
LeftOperand == unit.stack[Len(unit.stack) - 1]
RightOperand == unit.stack[Len(unit.stack)]
DivModResult ==
    IF is_num(LeftOperand) /\ is_num(RightOperand) /\ RightOperand.n # 0
    THEN unit.r = Ok(Append(Take(unit.stack, Len(unit.stack) - 2),
                            DivModExpected(unit.op, LeftOperand,
                                           RightOperand)))
    ELSE /\ unit.r.r = "err"
         /\ unit.r.msg = DivModError(unit.op, LeftOperand, RightOperand)

\* C12: for integer-valued numbers l and r, Div and Mod raise `divisor
\* cannot be 0.` exactly when r is 0, and otherwise replace l and r by the
\* quotient (Div) or by the remainder of truncated integer division (Mod);
\* with an operand that is not a number they raise a type error; and for
\* `print l / r;` the run reports the error at `/` and prints nothing, or
\* prints the quotient. Neither operation panics.
C12_DivMod ==
    /\ Applied => DivModResult
    /\ \A l \in DivModLefts, r \in DivModRights :
          (mode = "F" /\ source = DivModSrc("Slash", l, r)) =>
             /\ pc # "panic"
             /\ pc = "exit" =>
                   IF is_num(l) /\ is_num(r) /\ r.n # 0
                   THEN /\ out = <<to_string(DivModExpected("Slash", l, r))>>
                        /\ diagnostics = <<>>
                   ELSE /\ out = <<>>
                        /\ diagnostics =
                             <<Diagnostic("run", DivModError("Slash", l, r),
                                          "/", "Slash")>>

\* C12 restricted to operands `as i64` leaves unchanged and away from
\* MIN % -1: the statement holds there.
C12_DivModInRange ==
    /\ (/\ Applied
        /\ (unit.op = "Mod" /\ is_num(LeftOperand) /\ is_num(RightOperand))
              => /\ LeftOperand.n \in I64Min..I64Max
                 /\ ~RemOverflows(LeftOperand.n, RightOperand.n))
          => DivModResult
    /\ \A l \in DivModLefts, r \in DivModRights :
          (mode = "F" /\ source = DivModSrc("Slash", l, r)) =>
             /\ pc # "panic"
             /\ pc = "exit" =>
                   IF is_num(l) /\ is_num(r) /\ r.n # 0
                   THEN /\ out = <<to_string(DivModExpected("Slash", l, r))>>
                        /\ diagnostics = <<>>
                   ELSE /\ out = <<>>
                        /\ diagnostics =
                             <<Diagnostic("run", DivModError("Slash", l, r),
                                          "/", "Slash")>>

\* binary_mod has panicked on the operands MIN and -1
C12_ModPanics ==
    /\ Applied /\ unit.op = "Mod"
    /\ LeftOperand = Num(I64Min) /\ RightOperand = Num(-1)
    /\ unit.r.r = "panic"

\* `print 1 / 0;` has ended: nothing printed, the error is at `/`
C12_DivZeroReported ==
    /\ mode = "F" /\ pc = "exit" /\ source = DivZero
    /\ out = <<>>
    /\ diagnostics = <<Diagnostic("run", "divisor cannot be 0.", "/", "Slash")>>

C13_OrderOfStringRejected ==
    /\ mode = "F" /\ pc = "exit"
    /\ source = OrderSrc("LessEqual", Str("a"), Num(1))
    /\ Len(diagnostics) = 1

\* what the step of a Call opcode does, unless the process panics
CallStep ==
    (Running /\ CurOp.op = "Call" /\ pc' # "panic") =>
        LET n == CurOp.a
            callee == stack_nth(stack, n)
        IN  IF callee.t = "Func" /\ callee.f.arity = n
            THEN /\ Len(frames') = Len(frames) + 1
                 /\ frame'.function = callee.f /\ frame'.ip = 0
                 /\ pc' = "run"
                 /\ diagnostics' = diagnostics
            ELSE /\ frames' = frames
                 /\ frame' = NoFrame /\ pc' = "end_run"
                 /\ had_error'
                 /\ out' = out
                 /\ Len(diagnostics') = Len(diagnostics) + 1
                 /\ Last(diagnostics').phase = "run"

CompileFailed ==
    /\ out = <<>>
    /\ Len(diagnostics) = 1 /\ diagnostics[1].phase = "compile"

\* C15: a source that declares a name twice at one depth >= 1 of one scope
\* (by two `let`s, two local `func`s, a `let` and a local `func`, or a
\* repeated parameter) fails to compile, and a source whose second
\* declaration of the name is at another depth compiles.
C15_RedeclarationRejected ==
    (mode = "F" /\ pc = "exit") =>
        /\ source \in RedeclaredSources => CompileFailed
        /\ source \in ShadowedSources =>
              \A i \in 1..Len(diagnostics) : diagnostics[i].phase # "compile"

\* C15 for `let` alone: the second `let` of a name at one depth is rejected,
\* and declarations at different depths compile.
C15_LetRedeclarationRejected ==
    (mode = "F" /\ pc = "exit") =>
        /\ source = Redeclared => CompileFailed
        /\ source \in ShadowedSources =>
              \A i \in 1..Len(diagnostics) : diagnostics[i].phase # "compile"

\* `{ func f() {} func f() {} }` has compiled and run without any error
C15_LocalFuncRedeclared ==
    /\ mode = "F" /\ pc = "exit" /\ source = RedeclaredFunc
    /\ diagnostics = <<>> /\ ~had_error

\* the resolver has run on the source
Resolved == \E i \in 1..Len(phases) : phases[i].name = "resolve"

\* the diagnostics of the resolver whose message is one of msgs
ResolverErrors(msgs) ==
    Cardinality({i \in 1..Len(diagnostics) :
                    /\ diagnostics[i].phase = "resolve"
                    /\ diagnostics[i].msg \in msgs})

\* the number of `break` and `continue` statements of a tree that are not
\* inside the body of a loop
RECURSIVE MisplacedJumps(_, _), MisplacedJumpsIn(_, _)
MisplacedJumps(s, in_loop) ==
    CASE s.k \in {"Break", "Continue"} -> IF in_loop THEN 0 ELSE 1
      [] s.k = "Block" -> MisplacedJumpsIn(s.statements, in_loop)
      [] s.k = "Branch" ->
            MisplacedJumps(s.then_branch, in_loop)
            + MisplacedJumps(s.else_branch, in_loop)
      [] s.k = "While" -> MisplacedJumps(s.body, TRUE)
      [] s.k = "Function" -> MisplacedJumpsIn(s.body, FALSE)
      [] OTHER -> 0
MisplacedJumpsIn(ss, in_loop) ==
    IF ss = <<>> THEN 0
    ELSE MisplacedJumps(ss[1], in_loop) + MisplacedJumpsIn(Tail(ss), in_loop)

JumpMessages == {JumpOutsideLoop("break"), JumpOutsideLoop("continue")}

\* C16: once the resolver has run, it has reported one error for every
\* `break` and every `continue` of the source that is outside every loop
\* body, and none for those inside a loop body.
C16_JumpsOutsideLoopsReported ==
    (mode = "F" /\ source \in JumpSources /\ Resolved) =>
        ResolverErrors(JumpMessages) = MisplacedJumpsIn(source, FALSE)

\* C16 for the first misplaced statement only: the resolver reports an error
\* exactly when the source has a `break` or `continue` outside every loop
\* body, and the error is the only one it reports.
C16_FirstJumpOutsideLoopReported ==
    (mode = "F" /\ source \in JumpSources /\ Resolved) =>
        ResolverErrors(JumpMessages) =
            IF MisplacedJumpsIn(source, FALSE) = 0 THEN 0 ELSE 1

\* `break; continue;` has been resolved: one diagnostic, for the `break`
C16_SecondJumpNotReported ==
    /\ mode = "F" /\ source = BreakThenContinue /\ pc = "exit"
    /\ diagnostics =
         <<Diagnostic("resolve", JumpOutsideLoop("break"), "break", "break")>>

\* the number of `return` statements of a tree that no function body and no
\* lambda body encloses
RECURSIVE MisplacedReturns(_), MisplacedReturnsIn(_)
MisplacedReturns(s) ==
    CASE s.k = "Return" -> 1
      [] s.k \in {"Block", "MultiVar"} ->
            MisplacedReturnsIn(IF s.k = "Block" THEN s.statements ELSE s.vars)
      [] s.k = "Branch" ->
            MisplacedReturns(s.then_branch) + MisplacedReturns(s.else_branch)
      [] s.k = "While" -> MisplacedReturns(s.body)
      [] OTHER -> 0                  \* Function, and a lambda in an expression
MisplacedReturnsIn(ss) ==
    IF ss = <<>> THEN 0
    ELSE MisplacedReturns(ss[1]) + MisplacedReturnsIn(Tail(ss))

\* C17: the resolver rejects a source for its `return` exactly when the
\* `return` is enclosed by no function body and no lambda body; a `return`
\* inside a `func` declaration or a lambda is accepted, also in a lambda
\* written at the top level.
C17_ReturnOutsideFunctionRejected ==
    (mode = "F" /\ source \in ReturnSources /\ Resolved) =>
        ResolverErrors({ReturnOutsideFunction}) =
            IF MisplacedReturnsIn(source) = 0 THEN 0 ELSE 1

\* C17 without the lambdas written at the top level
C17_ReturnInFunctionAccepted ==
    (mode = "F" /\ source \in ReturnSources \ TopLambdaSources /\ Resolved) =>
        ResolverErrors({ReturnOutsideFunction}) =
            IF MisplacedReturnsIn(source) = 0 THEN 0 ELSE 1

\* `let f = func() { return 1; };` has been rejected by the resolver
C17_ReturnInTopLambdaRejected ==
    /\ mode = "F" /\ source = ReturnInLambda /\ pc = "exit"
    /\ diagnostics =
         <<Diagnostic("resolve", ReturnOutsideFunction, "return", "return")>>

\* the phase has run on the source; the diagnostics it reported
PhaseRan(name) == \E i \in 1..Len(phases) : phases[i].name = name
DiagnosticsOf(phase) ==
    Cardinality({i \in 1..Len(diagnostics) : diagnostics[i].phase = phase})

\* C18: each of the scanner, the parser and the resolver reports every error
\* of its phase: two diagnostics for a source with two characters the
\* scanner rejects, two for a source with two malformed declarations, two
\* for a tree with a `break` and a `continue` outside every loop.
C18_EveryErrorReported ==
    mode = "F" =>
        /\ (source \in {TwoLexicalErrors, TwoLexicalErrorsLater}
            /\ PhaseRan("scan")) => DiagnosticsOf("scan") = 2
        /\ (source \in {TwoSyntaxErrors, TwoSyntaxErrorsApart}
            /\ PhaseRan("parse")) => DiagnosticsOf("parse") = 2
        /\ (source = BreakThenContinue /\ PhaseRan("resolve")) =>
              DiagnosticsOf("resolve") = 2

\* C18 for the parser alone: the errors of both malformed declarations are
\* reported together.
C18_ParserReportsEveryError ==
    (/\ mode = "F" /\ source \in {TwoSyntaxErrors, TwoSyntaxErrorsApart}
     /\ PhaseRan("parse")) =>
        /\ DiagnosticsOf("parse") = 2
        /\ Len(diagnostics) = 2

\* the scanner has stopped at the first of two characters it rejects
C18_SecondLexicalErrorNotReported ==
    /\ mode = "F" /\ source = TwoLexicalErrors /\ PhaseRan("scan")
    /\ DiagnosticsOf("scan") = 1

\* the number of Eof tokens of a token list
EofCount(toks) == Cardinality({i \in 1..Len(toks) : toks[i] = Eof})

\* C19: the scanner ends its work on every source without a panic, and the
\* token list the parser is given ends with Eof and has no other Eof, also
\* when the scanner found a lexical error.
C19_TokensEndWithEof ==
    /\ pc = "parse" =>
          /\ tokens # <<>>
          /\ Last(tokens) = Eof
          /\ EofCount(tokens) = 1
    /\ mode = "F" => ~(pc = "panic" /\ ~PhaseRan("scan"))

\* C19 for the sources the scanner accepts
C19_TokensOfCleanScanEndWithEof ==
    (pc = "parse" /\ ~phases[Len(phases)].err) =>
        /\ Last(tokens) = Eof
        /\ EofCount(tokens) = 1

\* `print 1; @` has been scanned: the parser is given `print 1 ;` without Eof
C19_NoEofAfterLexicalError ==
    /\ mode = "F" /\ source = LexicalErrorLater /\ pc = "parse"
    /\ tokens = <<PrintStmt(LNum(1))>>

\* the scanner has panicked on `// c`
C19_ScannerPanicsOnComment ==
    /\ mode = "F" /\ source = OnlyComment /\ pc = "panic"
    /\ ~PhaseRan("scan")

\* what the step of the parser does: it goes on to the resolver with the
\* statements, or ends the run with at least one parse error
ParseStep ==
    pc = "parse" =>
        \/ pc' = "resolve" /\ diagnostics' = diagnostics
        \/ /\ pc' = "end_run"
           /\ Len(diagnostics') > Len(diagnostics)
           /\ \A i \in (Len(diagnostics) + 1)..Len(diagnostics') :
                 diagnostics'[i].phase = "parse"

\* C20: the parser ends without a panic on every token list it is given,
\* with the statements or with a non-empty list of errors, also on the list
\* a scan that reported a lexical error leaves.
C20_ParseDoesNotPanic == [][ParseStep]_vars

\* C20 for the token lists that end with Eof
C20_ParseOfEofListDoesNotPanic ==
    [][(tokens # <<>> /\ Last(tokens) = Eof) => ParseStep]_vars

\* the parser has panicked on the empty token list the scan of `@` left
C20_ParserPanicsWithoutEof ==
    /\ mode = "F" /\ source = LexicalError /\ pc = "panic"
    /\ tokens = <<>>
    /\ PhaseRan("parse")

\* a step of the machine that raises a runtime error
RaisesRuntimeError ==
    /\ Len(diagnostics') = Len(diagnostics) + 1
    /\ Last(diagnostics').phase = "run"

\* C23: every runtime error the machine raises (a type error of an opcode,
\* a division by zero, an undefined variable, an arity mismatch, the call
\* of a value that is not callable) carries the position that the chunk of
\* the current frame records for the opcode that raised it.
C23_ErrorsCarryPosition ==
    [][RaisesRuntimeError =>
          /\ Running
          /\ Last(diagnostics').position =
                frame.function.positions[frame.ip + 1]]_vars

\* C23 for the errors made by create_runtime_error
C23_CreatedErrorsCarryPosition ==
    [][(RaisesRuntimeError /\ Last(diagnostics') # get_function_error) =>
          /\ Running
          /\ Last(diagnostics').position =
                frame.function.positions[frame.ip + 1]]_vars

\* `let x = 1; x();` has ended: the error of the call has no position,
\* while the Call opcode was written at the position of the parenthesis
C23_NotCallableWithoutPosition ==
    /\ mode = "F" /\ pc = "exit" /\ source = CallNotFunction
    /\ diagnostics = <<get_function_error>>
    /\ get_function_error.position = NoPosition
    /\ \E i \in 1..Len(function.chunk) :
          function.chunk[i].op = "Call" /\ function.positions[i] = "paren"


(***************************************************************************)
(* C24: two fresh runs of one source in file mode print the same text.     *)
(***************************************************************************)
\* The resolver of a fresh run of the source of this run has finished
\* without an error in file mode
WarnedInFileMode ==
    /\ mode = "F"
    /\ PhaseRan("resolve")
    /\ ~resolve_statements(ResolverNew, stmts).err

\* The warnings that a fresh run of the source of this run can print
WarningsOfFreshRun ==
    IterationOrders(resolve_statements(ResolverNew, stmts).var_use_table)

\* C24: running one source in file mode in two fresh runs prints the same
\* text: every sequence of unused-variable warnings that a fresh run of the
\* source can print is the sequence that this run printed, and the function
\* a fresh run compiles has the opcodes of the function this run compiled.
C24_FreshRunsAgree ==
    /\ WarnedInFileMode => \A order \in WarningsOfFreshRun : order = warnings
    /\ (mode = "F" /\ PhaseRan("compile"))
          => function = convert(ConvertorDefault(0), stmts).function

\* C24, as far as it holds: two fresh runs print the same set of warnings,
\* one for every variable declared and never read, and compile the same
\* opcodes; with at most one such variable they print the same text.
C24_FreshRunsAgreeUpToOrder ==
    /\ WarnedInFileMode =>
          /\ \A order \in WarningsOfFreshRun :
                {order[i] : i \in DOMAIN order}
                    = {warnings[i] : i \in DOMAIN warnings}
          /\ Len(warnings) <= 1 =>
                \A order \in WarningsOfFreshRun : order = warnings
    /\ (mode = "F" /\ PhaseRan("compile"))
          => function = convert(ConvertorDefault(0), stmts).function

\* A run of `let a = 1; let b = 2;` that warned about b before a
C24_WarningsInAnotherOrder ==
    /\ WarnedInFileMode
    /\ stmts = TwoUnused
    /\ warnings = <<"b", "a">>
    /\ <<"a", "b">> \in WarningsOfFreshRun

(***************************************************************************)
(* C28: every activation ends with a Return opcode.                        *)
(***************************************************************************)
\* C28: while the VM runs, ip stays inside the chunk of the current frame:
\* no activation ends by running past the last opcode of its chunk, also
\* not that of a function whose `return` is inside a branch not taken.
C28_IpStaysInChunk ==
    pc = "run" => frame.ip < Len(frame.function.chunk)

\* C28 for the chunks that end with a Return opcode: ip stays inside them
C28_IpStaysInChunkEndingWithReturn ==
    (/\ pc = "run"
     /\ frame.function.chunk # <<>>
     /\ Last(frame.function.chunk).op = "Return")
        => frame.ip < Len(frame.function.chunk)

\* in `func f(c) { if (c) return 1; else print 2; } f(false);` the frame of
\* f stands behind the last opcode of f's chunk, which is not a Return, and
\* the caller's frame is still on the frame stack
C28_CalleeRanPastEnd ==
    /\ source = ReturnInBranch(FALSE)
    /\ pc = "run" /\ frames # <<>>
    /\ frame.ip = Len(frame.function.chunk)
    /\ Last(frame.function.chunk).op # "Return"
    /\ out = <<"2">>

(***************************************************************************)
(* C29, C30: the VM between two calls of interpret.                        *)
(***************************************************************************)
\* C29: whenever interpret is not running (it has returned Ok or Err, or
\* has not been called yet) the frame stack is empty, and while it runs with
\* an empty frame stack the current frame is the main frame of the function
\* it was called with: the Return that ends a line resumes no frame of an
\* earlier line.
C29_NoFrameLeftOver ==
    /\ pc \notin {"run", "panic"} => frames = <<>>
    /\ (pc = "run" /\ frames = <<>>) => frame.function = function

\* C29 for the sessions in which no line has ended inside a called
\* function: as long as every interpret so far has returned with an empty
\* frame stack, the next one starts with one and its last Return resumes
\* nothing.
C29_NoFrameLeftOverByMainFrame ==
    [][(frames = <<>> /\ pc = "interpret") =>
          (frames' = <<>> /\ frame'.function = function)]_vars

\* a runtime error inside a called function has ended a REPL line and the
\* caller's frame is still on the frame stack when the next line is read
C29_FrameLeftAfterError ==
    /\ mode = "R" /\ pc = "readline"
    /\ lines = <<TRUE>>
    /\ frames # <<>>

\* the Return that ended a later REPL line has resumed the frame of an
\* earlier line
C29_EarlierFrameResumed ==
    /\ mode = "R" /\ pc = "run" /\ Len(lines) >= 1
    /\ frames = <<>>
    /\ frame.function # function

\* C30: when an interpret call starts executing opcodes, on the first line
\* and on every later one, after a success and after a failure, the value
\* stack holds the function it was called with and nothing else, and the
\* base of the main frame is 1.
C30_StackHoldsSentinelAtStart ==
    [][pc = "interpret" =>
          /\ stack' = <<Func(function)>>
          /\ frame'.slot = 1]_vars

\* the second line of a REPL session is about to be interpreted on a stack
\* that is not empty: the first line has returned Ok from inside a function
\* that ran past the end of its chunk
C30_StackNotEmptyAtStart ==
    /\ mode = "R" /\ pc = "interpret" /\ lines = <<FALSE>>
    /\ stack # <<>>

(***************************************************************************)
(* C31: the VM's accesses to the value stack.                              *)
(***************************************************************************)
\* C31: while the VM runs a program the compiler accepted, no opcode pops
\* or peeks an empty stack or indexes the stack out of range (no step of
\* the run loop panics), and at every Return that resumes a caller the base
\* of the returning frame is at most the length the stack has when it is
\* truncated to the base.
C31_StackAccessInRange ==
    [][pc = "run" =>
          /\ pc' # "panic"
          /\ (Running /\ CurOp.op = "Return" /\ frames # <<>>)
                => frame.slot <= Len(stack) - 1]_vars

\* `if (true) print 1;` : the Return that ends the script finds only its
\* value on the stack, and its second pop is of an empty stack
C31_ReturnPopsEmptyStack ==
    /\ source = IfNoElse(TRUE) /\ mode = "F"
    /\ Running /\ CurOp.op = "Return" /\ frames = <<>>
    /\ stack = <<Nil>>
    /\ out = <<"1">>

\* `func g() { if (true) print 1; if (true) print 1; return 2; } g();` : at
\* the Return of g the stack is shorter than g's base, and set_len
\* lengthens it
C31_BaseAboveStack ==
    /\ source = PopsBelowBase
    /\ Running /\ CurOp.op = "Return" /\ frames # <<>>
    /\ frame.slot > Len(stack) - 1

(***************************************************************************)
(* C32: a local slot is the storage of the binding its identifier names.   *)
(***************************************************************************)
\* what the prints of a source of SlotSources name: c is 3, a is 1, b is 2
SlotOutput(src) == IF src = SlotNested THEN <<"1", "2", "3">> ELSE <<"3">>

\* C32: the GetLocal emitted for an identifier reads the storage of the
\* binding the identifier refers to: `print c` after `let c = 3` prints 3
\* in a function whose parameter list is (a, b), (b, a), (a, a) or (b, b),
\* and in a block after a local `func` of a new name or of a name already
\* declared at that depth; nested blocks print their own bindings.
C32_LocalSlotIsBinding ==
    \A src \in SlotSources :
        (mode = "F" /\ source = src) =>
            /\ pc # "panic"
            /\ pc = "exit" => (~had_error /\ out = SlotOutput(src))

\* C32 for the sources that declare no name twice at one depth
C32_LocalSlotIsBindingOfDistinctNames ==
    \A src \in {SlotParams("a", "b"), SlotParams("b", "a"),
                SlotLocalFunc("h"), SlotNested} :
        (mode = "F" /\ source = src) =>
            /\ pc # "panic"
            /\ pc = "exit" => (~had_error /\ out = SlotOutput(src))

\* `func f(a, a) { let c = 3; print c; } f(1, 2);` has printed its second
\* argument for c
C32_SecondArgumentReadForLocal ==
    /\ mode = "F" /\ source = SlotParams("a", "a") /\ pc = "exit"
    /\ ~had_error
    /\ out = <<"2">>
C35_SetGlobalBoundStored ==
    /\ Running /\ frame.prev >= 0
    /\ frame.function.chunk[frame.prev + 1].op = "SetGlobal"
    /\ stack # <<>>
    /\ globals[frame.function.chunk[frame.prev + 1].a] = Last(stack)

\* the Function values the chunk of f loads
LoadedFunctions(f) ==
    {f.chunk[i].a.f : i \in {j \in 1..Len(f.chunk) :
                                 /\ f.chunk[j].op = "Load"
                                 /\ f.chunk[j].a.t = "Func"}}

\* the sources that declare one function and call it with as many
\* arguments as the declaration has parameters, and that number
ExactCalls == {CallExact, AddCall, LambdaCall, LambdaCallNoParams}
DeclaredParameters(src) ==
    CASE src \in {CallExact, LambdaCall} -> 1
      [] src = AddCall -> 2
      [] OTHER -> 0

\* C36: every Function value the compiler produces has the arity of its
\* declaration's parameter list, named function or lambda, so a call with
\* exactly that many arguments passes the arity check and runs the body.
C36_ArityIsParameterCount ==
    \A src \in ExactCalls :
        (mode = "F" /\ source = src) =>
            /\ (pc \in {"interpret", "run"}) =>
                  \A f \in LoadedFunctions(function) :
                      f.arity = DeclaredParameters(src)
            /\ pc = "exit" => ~had_error

\* C36 for the named functions and the lambda without parameters
C36_ArityIsParameterCountUnlessLambda ==
    \A src \in ExactCalls \ {LambdaCall} :
        (mode = "F" /\ source = src) =>
            /\ (pc \in {"interpret", "run"}) =>
                  \A f \in LoadedFunctions(function) :
                      f.arity = DeclaredParameters(src)
            /\ pc = "exit" => ~had_error

\* `let f = func(a) { print a; }; f(1);` has ended with the arity error
\* and has printed nothing
C36_LambdaCallRejected ==
    /\ mode = "F" /\ source = LambdaCall /\ pc = "exit" /\ had_error
    /\ Len(diagnostics) = 1
    /\ diagnostics[1].msg = "Expect 0 arguments but got 1."
    /\ out = <<>>

\* C39: the resolver rejects a `break` or `continue` in the body of a
\* function or of a lambda that has no loop between the statement and the
\* function boundary, also when the function declaration or the lambda is
\* itself written inside a loop body.
C39_JumpInFunctionRejected ==
    (mode = "F" /\ source \in JumpInFunctionSources /\ Resolved) =>
        ResolverErrors(JumpMessages) = 1

\* C39 for the functions and lambdas that no loop body encloses
C39_JumpInFunctionOutsideLoopsRejected ==
    (mode = "F" /\ source \in {BreakInLambda, BreakInFunc} /\ Resolved) =>
        ResolverErrors(JumpMessages) = 1

\* `while (false) { func f() { break; } }` has been resolved, compiled and
\* run without any error
C39_BreakInFunctionInLoopAccepted ==
    /\ mode = "F" /\ source = BreakInFuncInLoop /\ pc = "exit"
    /\ ~had_error /\ diagnostics = <<>>

(***************************************************************************)
(* SpecScopes: the Scopes table of one Convertor under the calls the       *)
(* statement visitor makes (convertor.rs 432-463, 473-484, 510-574): a     *)
(* block begins and ends a scope, `let` and `func` inside a block define a *)
(* variable at the current depth, a loop saves the depth in                *)
(* loop_body_depth, `break` and `continue` ask will_delete_var_by_depth.   *)
(* declared and loop_depths are kept by the visitor's recursion, not by    *)
(* the table: declared[d] counts the definitions that succeeded in the     *)
(* open block of depth d.                                                  *)
(***************************************************************************)
MaxDepth == 3
MaxLocals == 3
MaxLoops == 2
LocalNames == {"a", "b"}

driverVars == <<mode, pc, source, tokens, had_error, function, stack, globals,
                frames, frame, out, diagnostics, phases, lines, stmts,
                LAMBDA_ID, warnings>>

ScopesOp(op, codes, ok) ==
    [op |-> op, codes |-> codes, before |-> scopes, ok |-> ok]

\* visit_block_statement: begin_scope
ScopeBegin ==
    /\ scopes.depth < MaxDepth
    /\ scopes' = begin_scope(scopes)
    /\ declared' = Append(declared, 0)
    /\ emitted' = ScopesOp("begin_scope", <<>>, TRUE)
    /\ UNCHANGED <<loop_depths, driverVars, unit>>

\* visit_var_statement, visit_function_statement at depth > 0
ScopeDefine ==
    /\ scopes.depth > 0 /\ Len(scopes.variables) < MaxLocals
    /\ \E name \in LocalNames :
          LET r == define_variable(scopes, name, scopes.depth)
          IN  /\ scopes' = r.scopes
              /\ declared' = IF r.ok
                             THEN [declared EXCEPT ![scopes.depth] = @ + 1]
                             ELSE declared
              /\ emitted' = ScopesOp("define_variable", <<>>, r.ok)
    /\ UNCHANGED <<loop_depths, driverVars, unit>>

\* visit_block_statement: end_scope, once the loops begun in the block are
\* over
ScopeEnd ==
    /\ scopes.depth > 0
    /\ IF loop_depths = <<>> THEN TRUE ELSE Last(loop_depths) < scopes.depth
    /\ scopes' = end_scope(scopes).scopes
    /\ declared' = Front(declared)
    /\ emitted' = ScopesOp("end_scope", end_scope(scopes).codes, TRUE)
    /\ UNCHANGED <<loop_depths, driverVars, unit>>

\* visit_while_statement: loop_body_depth = scopes.depth
LoopEnter ==
    /\ Len(loop_depths) < MaxLoops
    /\ loop_depths' = Append(loop_depths, scopes.depth)
    /\ emitted' = ScopesOp("while", <<>>, TRUE)
    /\ UNCHANGED <<scopes, declared, driverVars, unit>>

\* visit_while_statement: loop_body_depth = pre, once the blocks begun in
\* the loop are over
LoopExit ==
    /\ loop_depths # <<>>
    /\ Last(loop_depths) = scopes.depth
    /\ loop_depths' = Front(loop_depths)
    /\ emitted' = ScopesOp("end_while", <<>>, TRUE)
    /\ UNCHANGED <<scopes, declared, driverVars, unit>>

\* visit_break_statement, visit_continue_statement
LoopJump ==
    /\ loop_depths # <<>>
    /\ emitted' = ScopesOp("jump",
                           will_delete_var_by_depth(scopes,
                                                    Last(loop_depths)),
                           TRUE)
    /\ UNCHANGED <<scopes, declared, loop_depths, driverVars, unit>>

NextScopes ==
    \/ ScopeBegin \/ ScopeDefine \/ ScopeEnd
    \/ LoopEnter \/ LoopExit \/ LoopJump

SpecScopes == Init /\ [][NextScopes]_vars

RECURSIVE SumFrom(_, _)
\* declared[d] + ... for the open blocks deeper than depth
SumFrom(counts, depth) ==
    IF Len(counts) <= depth THEN 0
    ELSE Last(counts) + SumFrom(Front(counts), depth)

AllPops(codes) == \A i \in 1..Len(codes) : codes[i] = Op("Pop")

\* every index the table keeps for a name is a live entry of that name
MapIsLive(sc) ==
    \A n \in DOMAIN sc.var_map :
        \A i \in 1..Len(sc.var_map[n]) :
            /\ sc.var_map[n][i] < Len(sc.variables)
            /\ sc.variables[sc.var_map[n][i] + 1].name = n

\* C8: end_scope returns exactly one Pop for each local declared in the
\* block that ends and removes exactly those locals from the table;
\* will_delete_var_by_depth returns, for a `break` or `continue`, exactly
\* one Pop for each local declared in the blocks begun since the loop
\* began, and leaves the table as it was.
C8_PopsMatchLocals ==
    /\ emitted.op = "end_scope" =>
          /\ AllPops(emitted.codes)
          /\ Len(emitted.codes)
                = Len(emitted.before.variables) - Len(scopes.variables)
          /\ scopes.variables = Take(emitted.before.variables,
                                     Len(scopes.variables))
          /\ \A i \in 1..Len(emitted.before.variables) :
                (emitted.before.variables[i].depth = emitted.before.depth)
                    <=> (i > Len(scopes.variables))
          /\ Len(scopes.variables) = SumFrom(declared, 0)
          /\ MapIsLive(scopes)
    /\ emitted.op = "jump" =>
          /\ AllPops(emitted.codes)
          /\ Len(emitted.codes) = SumFrom(declared, Last(loop_depths))
          /\ scopes = emitted.before

\* C8, witness: a `break` or `continue` two blocks inside a loop pops the
\* two locals of those blocks and not the one declared outside the loop
C8_JumpPopsInnerLocals ==
    /\ emitted.op = "jump" /\ Len(emitted.codes) = 2
    /\ Len(scopes.variables) = 3 /\ scopes.depth = 3
    /\ Last(loop_depths) = 1

\* the live entries of a name, as 1-based positions in the table
LiveBindings(sc, name) ==
    {i \in 1..Len(sc.variables) : sc.variables[i].name = name}

\* the code the compiler writes for a read of, and a write to, the name
ReadCode(sc, name) ==
    Last(convert_expression(ConvertorWith("f", "Normal", sc, 0),
                            Variable(name)).chunk)

WriteCode(sc, name) ==
    Last(convert_expression(ConvertorWith("f", "Normal", sc, 0),
                            Assign(name, Literal(Nil))).chunk)

\* C33: after any sequence of begin_scope, end_scope and define_variable
\* calls, find_variable(name) is the slot of the most recently declared
\* live binding of the name, which is the innermost one when the name is
\* shadowed, and the compiler writes GetLocal/SetLocal of that slot; it
\* fails, and the compiler writes GetGlobal(name)/SetGlobal(name), exactly
\* when the table holds no live binding of the name.
C33_FindsInnermostBinding ==
        \A name \in LocalNames :
            LET live == LiveBindings(scopes, name)
                slot == find_variable(scopes, name)
            IN  IF live = {}
                THEN /\ slot = -1
                     /\ ReadCode(scopes, name) = OpA("GetGlobal", name)
                     /\ WriteCode(scopes, name) = OpA("SetGlobal", name)
                ELSE /\ slot + 1 \in live
                     /\ \A i \in live :
                           /\ i <= slot + 1
                           /\ scopes.variables[i].depth
                                 <= scopes.variables[slot + 1].depth
                     /\ ReadCode(scopes, name) = OpA("GetLocal", slot)
                     /\ WriteCode(scopes, name) = OpA("SetLocal", slot)

\* a name shadowed in an inner block is found at its inner binding while
\* the other name has no binding at all
C33_ShadowedNameFound ==
    /\ scopes.variables = <<[name |-> "a", depth |-> 1],
                            [name |-> "a", depth |-> 2]>>
    /\ find_variable(scopes, "a") = 1
    /\ find_variable(scopes, "b") = -1

\* C34: after any sequence of begin_scope, end_scope and define_variable
\* operations no two live entries of the table have both the same name and
\* the same depth.
C34_NoTwoAtSameDepth ==
    \A i, j \in 1..Len(scopes.variables) :
        (/\ scopes.variables[i].name = scopes.variables[j].name
         /\ scopes.variables[i].depth = scopes.variables[j].depth) => i = j

\* define_variable has refused a second `a` at depth 3 while the table
\* holds the `a` it took at depth 1 and the one it took at depth 3: the
\* same name lives at two depths
C34_SameNameAtTwoDepths ==
    /\ emitted.op = "define_variable" /\ ~emitted.ok
    /\ emitted.before.depth = 3 /\ scopes = emitted.before
    /\ \E i, j \in 1..Len(scopes.variables) :
          /\ scopes.variables[i] = [name |-> "a", depth |-> 1]
          /\ scopes.variables[j] = [name |-> "a", depth |-> 3]

(***************************************************************************)
(* SpecScan: the Scanner on a text, character by character (scanner.rs).   *)
(* A text is a sequence of one-character strings. unit is the Scanner:     *)
(* [source, prev_line_lines, tokens, start, current, line], with result    *)
(* ("scanning", "ok", "err", "panic") for what scan_tokens has come to and *)
(* overflow_checks for the build: a usize subtraction that goes below 0    *)
(* panics in a build with overflow checks and wraps in one without.        *)
(***************************************************************************)
MaxSource == 4
NL == "\n"
Quote == "\""
NUL == "nul"
Letters == {"a"}
Alphabet == Letters \cup {"/", NL, Quote, " ", "@"}
UsizeMax == 2 * I64Max + 1

Texts == UNION {[1..n -> Alphabet] : n \in 0..MaxSource}

\* source.split('\n'): the lengths of the lines
RECURSIVE LineLengths(_, _)
LineLengths(src, len) ==
    IF src = <<>> THEN <<len>>
    ELSE IF src[1] = NL THEN <<len>> \o LineLengths(Tail(src), 0)
    ELSE LineLengths(Tail(src), len + 1)

RECURSIVE SumLines(_, _)
SumLines(lens, k) == IF k = 0 THEN 0 ELSE lens[k] + 1 + SumLines(lens, k - 1)

\* Scanner::new: prev_line_lines[line] is the sum of len + 1 over the lines
\* before `line`
ScannerNew(src, checks) ==
    [source |-> src,
     prev_line_lines |->
        [l \in 1..Len(LineLengths(src, 0)) |->
            SumLines(LineLengths(src, 0), l - 1)],
     tokens |-> <<>>, start |-> 0, current |-> 0, line |-> 1,
     result |-> "scanning", msg |-> "", overflow_checks |-> checks]

ScanPanic(sc) == [sc EXCEPT !.result = "panic"]
ScanErr(sc, msg) == [sc EXCEPT !.result = "err", !.msg = msg]

ScannerAtEnd(sc) == sc.current >= Len(sc.source)

nth(sc, n) ==
    IF sc.current + n >= Len(sc.source) THEN NUL
    ELSE sc.source[sc.current + n + 1]

\* advance: current += 1, then source.chars().nth(current - 1).unwrap()
AdvancePanics(sc) == sc.current >= Len(sc.source)
advance(sc) == [sc EXCEPT !.current = @ + 1]

expected(sc, c) == ~ScannerAtEnd(sc) /\ sc.source[sc.current + 1] = c

Token(token_type, lexeme, position) ==
    [token_type |-> token_type, lexeme |-> lexeme, position |-> position]

\* add_token and add_token_with_literal: the position is
\* (line, start - prev_line_lines[line - 1]), a usize subtraction
add_token(sc, token_type) ==
    LET pre_lines_len == sc.prev_line_lines[sc.line]
        text == SubSeq(sc.source, sc.start + 1, sc.current)
    IN  IF sc.start < pre_lines_len /\ sc.overflow_checks THEN ScanPanic(sc)
        ELSE [sc EXCEPT !.tokens =
                Append(@, Token(token_type, text,
                                <<sc.line,
                                  IF sc.start < pre_lines_len
                                  THEN sc.start - pre_lines_len + UsizeMax + 1
                                  ELSE sc.start - pre_lines_len>>))]

\* the loop of scan_token over a comment:
\* while self.nth(0) != '\n' || !self.is_at_end() { self.advance(); }
RECURSIVE comment_loop(_)
comment_loop(sc) ==
    IF nth(sc, 0) # NL \/ ~ScannerAtEnd(sc)
    THEN IF AdvancePanics(sc) THEN ScanPanic(sc)
         ELSE comment_loop(advance(sc))
    ELSE sc

\* the loop of parse_string:
\* while self.nth(0) != '"' && !self.is_at_end() { .. self.advance(); }
RECURSIVE string_loop(_)
string_loop(sc) ==
    IF nth(sc, 0) # Quote /\ ~ScannerAtEnd(sc)
    THEN string_loop(advance(IF nth(sc, 0) = NL
                             THEN [sc EXCEPT !.line = @ + 1] ELSE sc))
    ELSE sc

parse_string(sc) ==
    IF ScannerAtEnd(string_loop(sc))
    THEN ScanErr(string_loop(sc), "Unterminated String.")
    ELSE add_token(advance(string_loop(sc)), "String")

RECURSIVE parse_identifier(_)
parse_identifier(sc) ==
    IF nth(sc, 0) \in Letters THEN parse_identifier(advance(sc))
    ELSE add_token(sc, "Identifier")

\* scan_token on the character the scanner is at, for the characters of
\* Alphabet
scan_token(sc) ==
    LET cur == sc.source[sc.current + 1]
    IN  CASE cur = "/" ->
                IF expected(advance(sc), "/") THEN comment_loop(advance(sc))
                ELSE IF expected(advance(sc), "=")
                THEN add_token(advance(advance(sc)), "SlashEqual")
                ELSE add_token(advance(sc), "Slash")
          [] cur = " " -> advance(sc)
          [] cur = NL -> [advance(sc) EXCEPT !.line = @ + 1]
          [] cur = Quote -> parse_string(advance(sc))
          [] cur \in Letters -> parse_identifier(advance(sc))
          [] OTHER -> ScanErr(advance(sc), "Unexpected character.")

\* one turn of the loop of scan_tokens: self.start = self.current;
\* self.scan_token()?
scan_step(sc) == scan_token([sc EXCEPT !.start = sc.current])

\* the end of scan_tokens: the Eof token at (line, start + 1)
scan_eof(sc) ==
    [sc EXCEPT !.tokens = Append(@, Token("Eof", <<>>,
                                          <<sc.line, sc.start + 1>>)),
               !.result = "ok"]

ScanToken ==
    /\ unit.result = "scanning" /\ ~ScannerAtEnd(unit)
    /\ unit' = scan_step(unit)
    /\ UNCHANGED <<driverVars, scopeVars>>

ScanEof ==
    /\ unit.result = "scanning" /\ ScannerAtEnd(unit)
    /\ unit' = scan_eof(unit)
    /\ UNCHANGED <<driverVars, scopeVars>>

InitScan ==
    /\ mode = "none" /\ pc = "ready"
    /\ source = <<>> /\ tokens = <<>> /\ stmts = <<>>
    /\ had_error = FALSE
    /\ function = NoNode
    /\ stack = <<>> /\ globals = <<>> /\ frames = <<>> /\ frame = NoFrame
    /\ out = <<>> /\ diagnostics = <<>> /\ phases = <<>> /\ lines = <<>>
    /\ LAMBDA_ID = 0
    /\ scopes = ScopesDefault /\ emitted = NoScopesOp
    /\ declared = <<>> /\ loop_depths = <<>>
    /\ warnings = <<>>
    /\ unit \in {ScannerNew(src, checks) : src \in Texts, checks \in BOOLEAN}

NextScan == ScanToken \/ ScanEof

SpecScan == InitScan /\ [][NextScan]_vars

\* scan_tokens as a whole
RECURSIVE ScanAll(_)
ScanAll(sc) ==
    IF sc.result # "scanning" THEN sc
    ELSE IF ScannerAtEnd(sc) THEN scan_eof(sc)
    ELSE ScanAll(scan_step(sc))

\* a text without its comments: outside a string literal, `//` and what
\* follows it up to the next newline (the newline stays)
RECURSIVE StripComments(_, _)
StripComments(src, state) ==
    IF src = <<>> THEN <<>>
    ELSE CASE state = "string" ->
                <<src[1]>> \o StripComments(Tail(src),
                                            IF src[1] = Quote THEN "code"
                                            ELSE "string")
           [] state = "comment" ->
                IF src[1] = NL THEN <<NL>> \o StripComments(Tail(src), "code")
                ELSE StripComments(Tail(src), "comment")
           [] OTHER ->
                IF Len(src) >= 2 /\ src[1] = "/" /\ src[2] = "/"
                THEN StripComments(Tail(Tail(src)), "comment")
                ELSE <<src[1]>> \o StripComments(Tail(src),
                                                 IF src[1] = Quote
                                                 THEN "string" ELSE "code")
HasComment(src) == StripComments(src, "code") # src

TokenTexts(toks) ==
    [i \in 1..Len(toks) |-> <<toks[i].token_type, toks[i].lexeme>>]

\* C21: the scanner does not panic on a text that contains a comment, and
\* when it has scanned such a text its tokens are those of the text without
\* the comments: no token for the characters of a comment, the lines after
\* it scanned as usual.
C21_CommentsSkipped ==
    HasComment(unit.source) =>
        /\ unit.result # "panic"
        /\ unit.result = "ok" =>
              TokenTexts(unit.tokens) =
                 TokenTexts(ScanAll(ScannerNew(
                               StripComments(unit.source, "code"),
                               unit.overflow_checks)).tokens)

\* the scanner has panicked in the comment of `a//` followed by a newline
\* and `a`
C21_CommentPanics ==
    /\ unit.source = <<"a", "/", "/", NL>>
    /\ unit.tokens = <<Token("Identifier", <<"a">>, <<1, 0>>)>>
    /\ unit.result = "panic"

\* the one-based row and the zero-based column of the character at `offset`
FirstCharPosition(src, offset) ==
    LET newlines == {i \in 1..offset : src[i] = NL}
    IN  <<1 + Cardinality(newlines),
          offset - (IF newlines = {} THEN 0
                    ELSE CHOOSE i \in newlines : \A j \in newlines : j <= i)>>

\* a turn of the scanner's loop that emits a token
EmitsToken ==
    /\ unit.result = "scanning"
    /\ Len(unit'.tokens) = Len(unit.tokens) + 1
    /\ Last(unit'.tokens).token_type # "Eof"

\* C22: every token the scanner emits carries the row and the column of the
\* first character of its lexeme, also a string literal that spans lines
\* (which the scanner does emit: it does not panic on the closing quote of
\* a string) and the tokens after it.
C22_TokenPositions ==
    [][/\ EmitsToken =>
             Last(unit'.tokens).position =
                FirstCharPosition(unit.source, unit.current)
       /\ (/\ unit.result = "scanning" /\ nth(unit, 0) = Quote
           /\ unit'.result = "panic") => FALSE]_vars

\* C22 for the tokens whose lexeme has no newline in it
C22_PositionsOfOneLineTokens ==
    [][(EmitsToken /\ \A i \in 1..Len(Last(unit'.tokens).lexeme) :
                         Last(unit'.tokens).lexeme[i] # NL) =>
          Last(unit'.tokens).position =
             FirstCharPosition(unit.source, unit.current)]_vars

\* a string literal that starts on line 1 and ends on line 2 has been given
\* row 2 and a column that wrapped below 0
C22_MultiLineStringMisplaced ==
    /\ unit.source = <<Quote, NL, Quote>>
    /\ ~unit.overflow_checks
    /\ unit.tokens = <<Token("String", <<Quote, NL, Quote>>,
                             <<2, UsizeMax - 1>>)>>

(***************************************************************************)
(* SpecParse: the Parser driven directly on a token list (parser.rs). A    *)
(* parser is [tokens, current]; a method returns [p, ok, v]: the parser    *)
(* after the call, and Ok(v) or the ParseError v. An Err that the code     *)
(* keeps in a variable and unwraps later with `?` is kept here in the same *)
(* way. The texts hold no `func`: the lambda arm of primary is left out.   *)
(* The while loops of arguments and of function_params_and_body run one    *)
(* iteration an action, the methods of an expression as a whole.           *)
(***************************************************************************)
\* the limits of parser.rs 76 and 475
MaxParameters == 256
MaxArguments == 256

\* the token the scanner makes of a word
TokenTypeOf(word) ==
    CASE word = "and" -> "And"       [] word = "or" -> "Or"
      [] word = "?" -> "QuestionMark" [] word = ":" -> "Colon"
      [] word = "*" -> "Star"        [] word = "/" -> "Slash"
      [] word = "%" -> "Mod"         [] word = "+" -> "Plus"
      [] word = "-" -> "Minus"       [] word = "!" -> "Bang"
      [] word = "=" -> "Equal"       [] word = "==" -> "EqualEqual"
      [] word = "<" -> "Less"        [] word = "(" -> "LeftParen"
      [] word = ")" -> "RightParen"  [] word = "," -> "Comma"
      [] word = "{" -> "LeftBrace"   [] word = "}" -> "RightBrace"
      [] word = "1" -> "Number"      [] word = "" -> "Eof"
      [] word = ";" -> "Semicolon"   [] word = "print" -> "Print"
      [] word = "let" -> "Let"
      [] OTHER -> "Identifier"
Words(ws) ==
    [i \in 1..Len(ws) + 1 |->
        IF i > Len(ws) THEN Token("Eof", "", <<1, i - 1>>)
        ELSE Token(TokenTypeOf(ws[i]), ws[i], <<1, i - 1>>)]

ParserNew(toks) == [tokens |-> toks, current |-> 0]
ParseOk(p, v) == [p |-> p, ok |-> TRUE, v |-> v]
\* Err(Self::error(self.peek(), msg))
ParseError(p, msg) ==
    [p |-> p, ok |-> FALSE,
     v |-> [msg |-> msg, lexeme |-> p.tokens[p.current + 1].lexeme]]

peek(p) == p.tokens[p.current + 1]
is_at_end(p) == peek(p).token_type = "Eof"
check(p, token_type) == ~is_at_end(p) /\ peek(p).token_type = token_type
\* the parser after advance(), which match_one and match_many call when
\* they return true
Advanced(p) == IF ~is_at_end(p) THEN [p EXCEPT !.current = @ + 1] ELSE p
match_many(p, types) == \E token_type \in types : check(p, token_type)

\* Ok(create_binary_expression(Box::new(expr?), op, Box::new(right?)))
BinaryOf(expr, op, right) ==
    IF ~expr.ok THEN [expr EXCEPT !.p = right.p]
    ELSE IF ~right.ok THEN right
    ELSE ParseOk(right.p, Binary(expr.v, op, right.v))

\* create_logical_expression(Box::new(expr), op, Box::new(right)) after
\* `let right = self.ternary()?` or `self.and()?`
LogicalOf(expr, op, right) ==
    IF ~right.ok THEN right
    ELSE ParseOk(right.p, Logical(expr.v, op, right.v))

\* Ok(create_ternary_expression(Box::new(cmp?), Box::new(true_value?),
\*                              Box::new(false_value?)))
TernaryOf(cmp, true_value, false_value) ==
    IF ~cmp.ok THEN [cmp EXCEPT !.p = false_value.p]
    ELSE IF ~true_value.ok THEN [true_value EXCEPT !.p = false_value.p]
    ELSE IF ~false_value.ok THEN false_value
    ELSE ParseOk(false_value.p,
                 Ternary(cmp.v, true_value.v, false_value.v))

\* Ok(create_unary_expression(op, Box::new(right?)))
UnaryOf(op, right) ==
    IF ~right.ok THEN right ELSE ParseOk(right.p, Unary(op, right.v))

\* the end of Parser::assignment, after `let value = self.assignment()?`
AssignOf(expr, value) ==
    IF ~value.ok THEN value
    ELSE IF expr.v.k = "Variable"
    THEN ParseOk(value.p, Assign(expr.v.name, value.v))
    ELSE [p |-> value.p, ok |-> FALSE,
          v |-> [msg |-> "Invalid assignment target", lexeme |-> "="]]

\* the end of Parser::primary's arm of `(`
GroupingOf(expr) ==
    IF ~check(expr.p, "RightParen")
    THEN ParseError(expr.p, "Expect ')' after expression.")
    ELSE IF ~expr.ok THEN [expr EXCEPT !.p = Advanced(expr.p)]
    ELSE ParseOk(Advanced(expr.p), Grouping(expr.v))

\* the end of Parser::call, after `let args = self.arguments()?`
CallOf(callee, args) ==
    IF ~args.ok THEN args
    ELSE IF check(args.p, "RightParen")
    THEN ParseOk(Advanced(args.p), Call(callee.v, args.v))
    ELSE ParseError(args.p, "Expect ')' after arguments")

\* the tokens before which primary expects an expression
ExpectBefore ==
    {"Star", "Slash", "Comma", "Greater", "GreaterEqual", "Less",
     "LessEqual", "EqualEqual", "BangEqual"}

RECURSIVE expression(_), assignment(_), assignment_value(_), or(_),
          or_loop(_), and(_), and_loop(_), ternary(_), ternary_true(_),
          ternary_false(_, _), equality(_), equality_loop(_, _),
          comparison(_), comparison_loop(_, _), term(_), term_loop(_, _),
          factor(_), factor_loop(_, _), unary(_), call(_), call_arguments(_),
          primary(_), arguments_step(_), arguments_push(_, _),
          arguments_loop(_)

\* Parser::primary
primary(p) ==
    CASE check(p, "Number") -> ParseOk(Advanced(p), Literal(Num(1)))
      [] check(p, "Identifier") ->
            ParseOk(Advanced(p), Variable(peek(p).lexeme))
      [] check(p, "LeftParen") -> GroupingOf(expression(Advanced(p)))
      [] peek(p).token_type \in ExpectBefore ->
            ParseError(p, "Expect a expression before")
      [] OTHER -> ParseError(p, "Expect expression.")

\* one iteration of the loop of Parser::arguments, on args = [p, ok, v] with
\* v the arguments pushed so far; done when `)` is next or on an Err
arguments_step(args) ==
    IF Len(args.v) > MaxArguments
    THEN ParseError(args.p, "The maximum number of arguments is 256.")
    ELSE arguments_push(args, expression(args.p))
arguments_push(args, expr) ==
    IF ~expr.ok THEN expr
    ELSE ParseOk(IF check(expr.p, "Comma") THEN Advanced(expr.p) ELSE expr.p,
                 Append(args.v, expr.v))
arguments_loop(args) ==
    IF ~args.ok \/ check(args.p, "RightParen") THEN args
    ELSE arguments_loop(arguments_step(args))
\* Parser::arguments
arguments(p) == arguments_loop(ParseOk(p, <<>>))

\* Parser::call
call_arguments(callee) ==
    IF ~callee.ok THEN callee
    ELSE IF check(callee.p, "LeftParen")
    THEN CallOf(callee, arguments(Advanced(callee.p)))
    ELSE callee
call(p) == call_arguments(primary(p))

\* Parser::unary
unary(p) ==
    IF match_many(p, {"Bang", "Minus", "Plus"})
    THEN UnaryOf(peek(p).token_type, unary(Advanced(p)))
    ELSE call(p)

\* Parser::factor: `*` and `/`; the token of `%` is not among them. In the
\* loops first is TRUE before the first iteration: later ones start from
\* an Ok, an Err having returned with `?`.
factor_loop(expr, first) ==
    IF (first \/ expr.ok) /\ match_many(expr.p, {"Star", "Slash"})
    THEN factor_loop(BinaryOf(expr, peek(expr.p).token_type,
                              unary(Advanced(expr.p))), FALSE)
    ELSE expr
factor(p) == factor_loop(unary(p), TRUE)

\* Parser::term
term_loop(expr, first) ==
    IF (first \/ expr.ok) /\ match_many(expr.p, {"Plus", "Minus"})
    THEN term_loop(BinaryOf(expr, peek(expr.p).token_type,
                            factor(Advanced(expr.p))), FALSE)
    ELSE expr
term(p) == term_loop(factor(p), TRUE)

\* Parser::comparison
comparison_loop(expr, first) ==
    IF (first \/ expr.ok)
       /\ match_many(expr.p, {"Greater", "GreaterEqual", "Less", "LessEqual"})
    THEN comparison_loop(BinaryOf(expr, peek(expr.p).token_type,
                                  term(Advanced(expr.p))), FALSE)
    ELSE expr
comparison(p) == comparison_loop(term(p), TRUE)

\* Parser::equality
equality_loop(expr, first) ==
    IF (first \/ expr.ok) /\ match_many(expr.p, {"BangEqual", "EqualEqual"})
    THEN equality_loop(BinaryOf(expr, peek(expr.p).token_type,
                                comparison(Advanced(expr.p))), FALSE)
    ELSE expr
equality(p) == equality_loop(comparison(p), TRUE)

\* a ternary whose value after `:` is an equality: not right-associative
ternary_false_equality(cmp, true_value) ==
    IF check(true_value.p, "Colon")
    THEN TernaryOf(cmp, true_value, equality(Advanced(true_value.p)))
    ELSE ParseError(true_value.p, "Expected ':' after expression")

\* Parser::ternary: the value after `:` is a ternary
ternary_false(cmp, true_value) ==
    IF check(true_value.p, "Colon")
    THEN TernaryOf(cmp, true_value, ternary(Advanced(true_value.p)))
    ELSE ParseError(true_value.p, "Expected ':' after expression")
ternary_true(cmp) ==
    IF check(cmp.p, "QuestionMark")
    THEN ternary_false(cmp, ternary(Advanced(cmp.p)))
    ELSE cmp
ternary(p) == ternary_true(equality(p))

\* Parser::and: its operands are ternaries
and_loop(expr) ==
    IF expr.ok /\ check(expr.p, "And") /\ ~is_at_end(Advanced(expr.p))
    THEN and_loop(LogicalOf(expr, "And", ternary(Advanced(expr.p))))
    ELSE IF expr.ok /\ check(expr.p, "And")
    THEN [expr EXCEPT !.p = Advanced(expr.p)]
    ELSE expr
and(p) == and_loop(ternary(p))

\* Parser::or
or_loop(expr) ==
    IF expr.ok /\ check(expr.p, "Or") /\ ~is_at_end(Advanced(expr.p))
    THEN or_loop(LogicalOf(expr, "Or", and(Advanced(expr.p))))
    ELSE IF expr.ok /\ check(expr.p, "Or")
    THEN [expr EXCEPT !.p = Advanced(expr.p)]
    ELSE expr
or(p) == or_loop(and(p))

\* Parser::assignment
assignment_value(expr) ==
    IF expr.ok /\ check(expr.p, "Equal")
    THEN AssignOf(expr, assignment(Advanced(expr.p)))
    ELSE expr
assignment(p) == assignment_value(or(p))

\* Parser::expression
expression(p) == assignment(p)

\* one iteration of the loop of function_params_and_body, on params =
\* [p, ok, v] with v the names pushed so far
params_step(params) ==
    IF Len(params.v) > MaxParameters
    THEN ParseError(params.p, "The maximum number of parameters is 256.")
    ELSE IF ~check(params.p, "Identifier")
    THEN ParseError(params.p, "Expect parameter name.")
    ELSE ParseOk(IF check(Advanced(params.p), "Comma")
                 THEN Advanced(Advanced(params.p)) ELSE Advanced(params.p),
                 Append(params.v, peek(params.p).lexeme))

\* the longest text of SpecParse drawn from ExprAlphabet
\* Parser::previous
previous(p) == p.tokens[p.current]

SyncKeywords ==
    {"Class", "Func", "Let", "For", "If", "While", "Print", "Return"}

\* Parser::synchronize: the loop after the first advance()
RECURSIVE synchronize_loop(_)
synchronize_loop(p) ==
    IF is_at_end(p) THEN p
    ELSE IF previous(p).token_type = "Semicolon" THEN p
    ELSE IF previous(p).token_type \in SyncKeywords THEN p
    ELSE synchronize_loop(Advanced(p))

synchronize(p) == synchronize_loop(Advanced(p))

\* print_statement and expression_statement after `self.expression()?`
statement_end(value, kind) ==
    IF ~value.ok THEN value
    ELSE IF ~check(value.p, "Semicolon")
    THEN ParseError(value.p, "Expect ';' after value")
    ELSE ParseOk(Advanced(value.p),
                 IF kind = "Print" THEN PrintStmt(value.v)
                 ELSE ExpressionStmt(value.v))

\* Parser::statement on a text without `for`, `if`, `return`, `while`,
\* `break`, `continue` and `{`
statement(p) ==
    IF check(p, "Print") THEN statement_end(expression(Advanced(p)), "Print")
    ELSE statement_end(expression(p), "Expression")

\* Parser::var_declaration: the loop on the variables pushed so far (pushed), with
\* the name just consumed and the initializer just parsed
RECURSIVE var_declaration_loop(_, _), var_declaration_push(_, _, _)
var_declaration_push(pushed, name, init) ==
    IF ~init.ok THEN init
    ELSE IF check(init.p, "Semicolon")
    THEN var_declaration_loop(init.p, Append(pushed, VarStmt(name, init.v)))
    ELSE IF check(init.p, "Comma")
    THEN var_declaration_loop(Advanced(init.p),
                              Append(pushed, VarStmt(name, init.v)))
    ELSE ParseError(init.p, "Expect ',' after value")

var_declaration_loop(p, pushed) ==
    IF ~is_at_end(p) /\ ~check(p, "Semicolon")
    THEN IF ~check(p, "Identifier")
         THEN ParseError(p, "Expect a variable name.")
         ELSE var_declaration_push(
                 pushed, peek(p).lexeme,
                 IF check(Advanced(p), "Equal")
                 THEN ternary(Advanced(Advanced(p)))
                 ELSE ParseOk(Advanced(p), NoNode))
    ELSE IF check(p, "Semicolon")
    THEN ParseOk(Advanced(p), MultiVarStmt(pushed))
    ELSE ParseError(p, "Expect ';' after value")

var_declaration(p) == var_declaration_loop(p, <<>>)

\* the Err arms of Parser::declaration: self.synchronize(); Err(err)
synchronized(res) ==
    IF res.ok THEN res ELSE [res EXCEPT !.p = synchronize(res.p)]

\* Parser::declaration on a text without `func`
declaration(p) ==
    IF check(p, "Let") THEN synchronized(var_declaration(Advanced(p)))
    ELSE synchronized(statement(p))

\* one iteration of the loop of Parser::parse on r = [p, ok, v, errors,
\* synced]: v the statements, ok iff errors is empty, synced the index
\* each synchronize left the parser at
parse_push(r, d) ==
    [p |-> d.p, ok |-> r.ok /\ d.ok,
     v |-> IF d.ok THEN Append(r.v, d.v) ELSE r.v,
     errors |-> IF d.ok THEN r.errors ELSE Append(r.errors, d.v),
     synced |-> IF d.ok THEN r.synced ELSE Append(r.synced, d.p.current)]

parse_step(r) == parse_push(r, declaration(r.p))

MaxTokens == 3
ExprAlphabet == {"a", "%", "*", "?", ":", "and"}
ShortTexts == UNION {[1..n -> ExprAlphabet] : n \in 0..MaxTokens}

\* a and b ? c : d      a ? b : c ? d : e      a ? b : c and d
\* a ? b ? c : d : e
TernaryTexts ==
    {<<"a", op, "b", "?", "c", ":", "d">> : op \in {"and", "or"}}
    \cup {<<"a", "?", "b", ":", "c", op, "d">> : op \in {"and", "or"}}
    \cup {<<"a", "?", "b", ":", "c", "?", "d", ":", "e">>,
          <<"a", "?", "b", "?", "c", ":", "d", ":", "e">>}

\* a <o1> b <o2> c      f(1, 1)      f(1 1)      x = a % b
FactorOps == {"+", "*", "/", "%"}
FactorTexts ==
    {<<"a", o1, "b", o2, "c">> : o1, o2 \in FactorOps}
    \cup {<<"f", "(", "1", ",", "1", ")">>, <<"f", "(", "1", "1", ")">>,
          <<"x", "=", "a", "%", "b">>}
ExprTexts == ShortTexts \cup TernaryTexts \cup FactorTexts

\* n parameters or arguments and the `)` after them: w, w, ..., w )
ListWords(word, n) ==
    [i \in 1..(IF n = 0 THEN 1 ELSE 2 * n) |->
        IF i >= 2 * n THEN ")" ELSE IF i % 2 = 1 THEN word ELSE ","]
ListLengths ==
    {0, 1, MaxParameters - 1, MaxParameters, MaxParameters + 1,
     MaxParameters + 2}

\* the texts of Parser::parse: every short text over 1 ; print let, and
\* an erroneous text followed by a well-formed declaration that begins
\* with a keyword
SyncAlphabet == {"1", ";", "print", "let"}
SyncTexts == UNION {[1..n -> SyncAlphabet] : n \in 0..MaxTokens}
ErroneousTexts == {<<"1", "1">>, <<"=">>, <<"1", "1", ";">>, <<"=", ";">>}
PrintOne == <<"print", "1", ";">>
LetAOne == <<"let", "a", "=", "1", ";">>
LetA == <<"let", "a", ";">>
FollowingDeclarations == {PrintOne, LetAOne, LetA}
RecoveryTexts ==
    {bad \o good : bad \in ErroneousTexts, good \in FollowingDeclarations}
ProgramTexts == SyncTexts \cup RecoveryTexts \cup FollowingDeclarations

ParsingOn(ws) ==
    [k |-> "Parser", goal |-> "parse",
     r |-> [p |-> ParserNew(Words(ws)), ok |-> TRUE, v |-> <<>>,
            errors |-> <<>>, synced |-> <<>>]]

\* a parser about to parse an expression, or inside the parentheses of a
\* parameter list or of a call
ParserOn(goal, ws) ==
    [k |-> "Parser", goal |-> goal, r |-> ParseOk(ParserNew(Words(ws)), <<>>)]

\* self.expression() as a whole
ParseExpression ==
    /\ unit.goal = "expression"
    /\ unit' = [unit EXCEPT !.goal = "parsed", !.r = expression(unit.r.p)]
    /\ UNCHANGED <<driverVars, scopeVars>>

\* one iteration of `while !self.check(TokenType::RightParen)` in
\* function_params_and_body
ParamsStep ==
    /\ unit.goal = "params"
    /\ unit.r.ok /\ ~check(unit.r.p, "RightParen")
    /\ unit' = [unit EXCEPT !.r = params_step(unit.r)]
    /\ UNCHANGED <<driverVars, scopeVars>>

\* one iteration of `while !self.check(TokenType::RightParen)` in arguments
ArgumentsStep ==
    /\ unit.goal = "arguments"
    /\ unit.r.ok /\ ~check(unit.r.p, "RightParen")
    /\ unit' = [unit EXCEPT !.r = arguments_step(unit.r)]
    /\ UNCHANGED <<driverVars, scopeVars>>

\* the driver and the scope table before anything has run
Idle ==
    /\ mode = "none" /\ pc = "ready"
    /\ source = <<>> /\ tokens = <<>> /\ stmts = <<>>
    /\ had_error = FALSE
    /\ function = NoNode
    /\ stack = <<>> /\ globals = <<>> /\ frames = <<>> /\ frame = NoFrame
    /\ out = <<>> /\ diagnostics = <<>> /\ phases = <<>> /\ lines = <<>>
    /\ LAMBDA_ID = 0
    /\ scopes = ScopesDefault /\ emitted = NoScopesOp
    /\ declared = <<>> /\ loop_depths = <<>>
    /\ warnings = <<>>

\* one iteration of `while !self.is_at_end()` in Parser::parse
DeclarationStep ==
    /\ unit.goal = "parse"
    /\ ~is_at_end(unit.r.p)
    /\ unit' = [unit EXCEPT !.r = parse_step(unit.r)]
    /\ UNCHANGED <<driverVars, scopeVars>>

InitParse ==
    /\ Idle
    /\ unit \in {ParserOn("expression", ws) : ws \in ExprTexts}
              \cup {ParsingOn(ws) : ws \in ProgramTexts}
              \cup {ParserOn("params", ListWords("a", n)) : n \in ListLengths}
              \cup {ParserOn("arguments", ListWords("1", n)) :
                       n \in ListLengths}

NextParse ==
    \/ ParseExpression \/ ParamsStep \/ ArgumentsStep
    \/ DeclarationStep

SpecParse == InitParse /\ [][NextParse]_vars

\* the result of self.expression() on a text, once ParseExpression has run
ParsedAs(ws, tree) ==
    (unit.goal = "parsed" /\ unit.r.p.tokens = Words(ws)) =>
        /\ unit.r.ok
        /\ unit.r.v = tree
        /\ is_at_end(unit.r.p)
Parsed(ws) == unit.goal = "parsed" /\ unit.r.p.tokens = Words(ws)

\* C25: the ternary operator is right-associative and binds less tightly
\* than `and` and `or`: `a and b ? c : d` (and `a or b ? c : d`) parses as
\* `(a and b) ? c : d`, and `a ? b : c ? d : e` as `a ? b : (c ? d : e)`.
C25_TernaryBelowLogical ==
    /\ \A op \in {"and", "or"} :
          ParsedAs(<<"a", op, "b", "?", "c", ":", "d">>,
                   Ternary(Logical(Variable("a"), TokenTypeOf(op),
                                   Variable("b")),
                           Variable("c"), Variable("d")))
    /\ ParsedAs(<<"a", "?", "b", ":", "c", "?", "d", ":", "e">>,
                Ternary(Variable("a"), Variable("b"),
                        Ternary(Variable("c"), Variable("d"),
                                Variable("e"))))

\* C25 as the parser has it: the ternary operator is right-associative and
\* binds more tightly than `and` and `or`: `a and b ? c : d` parses as
\* `a and (b ? c : d)`, `a ? b : c and d` as `(a ? b : c) and d`, and
\* `a ? b : c ? d : e` as `a ? b : (c ? d : e)`.
C25_TernaryAboveLogical ==
    /\ \A op \in {"and", "or"} :
          /\ ParsedAs(<<"a", op, "b", "?", "c", ":", "d">>,
                      Logical(Variable("a"), TokenTypeOf(op),
                              Ternary(Variable("b"), Variable("c"),
                                      Variable("d"))))
          /\ ParsedAs(<<"a", "?", "b", ":", "c", op, "d">>,
                      Logical(Ternary(Variable("a"), Variable("b"),
                                      Variable("c")),
                              TokenTypeOf(op), Variable("d")))
    /\ ParsedAs(<<"a", "?", "b", ":", "c", "?", "d", ":", "e">>,
                Ternary(Variable("a"), Variable("b"),
                        Ternary(Variable("c"), Variable("d"),
                                Variable("e"))))

\* `a and b ? c : d` has been parsed, as a logical expression
C25_AndOfTernaryParsed ==
    /\ Parsed(<<"a", "and", "b", "?", "c", ":", "d">>)
    /\ unit.r.ok /\ unit.r.v.k = "Logical" /\ unit.r.v.right.k = "Ternary"

\* the operator of SpecParse's texts as the token type the tree keeps
FactorTree(l, o, r) == Binary(l, TokenTypeOf(o), r)

\* C26: `%` is a left-associative binary operator of the level of `*` and
\* `/`: `a % a` parses as a binary expression of Mod, `a o1 b o2 c` with o1
\* and o2 among `*`, `/`, `%` as `(a o1 b) o2 c`, `a + b % c` as
\* `a + (b % c)` and `a % b + c` as `(a % b) + c`; and the compiler turns a
\* binary expression of Mod into its operands' opcodes and the Mod opcode.
C26_ModIsAFactor ==
    /\ ParsedAs(<<"a", "%", "a">>,
                FactorTree(Variable("a"), "%", Variable("a")))
    /\ \A o1, o2 \in {"*", "/", "%"} :
          ParsedAs(<<"a", o1, "b", o2, "c">>,
                   FactorTree(FactorTree(Variable("a"), o1, Variable("b")),
                              o2, Variable("c")))
    /\ ParsedAs(<<"a", "+", "b", "%", "c">>,
                FactorTree(Variable("a"), "+",
                           FactorTree(Variable("b"), "%", Variable("c"))))
    /\ ParsedAs(<<"a", "%", "b", "+", "c">>,
                FactorTree(FactorTree(Variable("a"), "%", Variable("b")),
                           "+", Variable("c")))
    /\ BinaryCodes("Mod") = <<Op("Mod")>>

\* C26 without `%`: `*` and `/` are left-associative and bind more tightly
\* than `+`; and a text with `%` after an operand is parsed up to the `%`,
\* which no method of the expression grammar consumes.
C26_StarAndSlashAreFactors ==
    /\ \A o1, o2 \in {"*", "/"} :
          ParsedAs(<<"a", o1, "b", o2, "c">>,
                   FactorTree(FactorTree(Variable("a"), o1, Variable("b")),
                              o2, Variable("c")))
    /\ \A o \in {"*", "/"} :
          /\ ParsedAs(<<"a", "+", "b", o, "c">>,
                      FactorTree(Variable("a"), "+",
                                 FactorTree(Variable("b"), o, Variable("c"))))
          /\ ParsedAs(<<"a", o, "b", "+", "c">>,
                      FactorTree(FactorTree(Variable("a"), o, Variable("b")),
                                 "+", Variable("c")))
    /\ \A o \in {"+", "*", "/"} :
          Parsed(<<"a", o, "b", "%", "c">>) =>
             /\ unit.r.ok
             /\ unit.r.v = FactorTree(Variable("a"), o, Variable("b"))
             /\ peek(unit.r.p).token_type = "Mod"
    /\ BinaryCodes("Mod") = <<Op("Mod")>>

\* expression() on `a % a` has returned the variable a and stands at `%`
C26_ModNotConsumed ==
    /\ Parsed(<<"a", "%", "a">>)
    /\ unit.r.ok /\ unit.r.v = Variable("a")
    /\ unit.r.p.current = 1 /\ peek(unit.r.p).token_type = "Mod"

\* the loop over a list of n parameters or n arguments has ended: `)` is
\* next, or the loop has returned an Err
ListEnded(goal, word, n) ==
    /\ unit.k = "Parser" /\ unit.goal = goal
    /\ unit.r.p.tokens = Words(ListWords(word, n))
    /\ ~unit.r.ok \/ check(unit.r.p, "RightParen")

\* C27: a list of more than 256 parameters, and a list of more than 256
\* arguments, ends in a parse error, and a list of at most 256 (exactly 256
\* among them) is accepted, with all its entries.
C27_AtMost256 ==
    \A n \in ListLengths :
        /\ ListEnded("params", "a", n) =>
              /\ unit.r.ok <=> n <= MaxParameters
              /\ unit.r.ok => Len(unit.r.v) = n
        /\ ListEnded("arguments", "1", n) =>
              /\ unit.r.ok <=> n <= MaxArguments
              /\ unit.r.ok => Len(unit.r.v) = n

\* C27 as the loops have it: the length is tested before the push, so the
\* lists of at most 257 entries are accepted, 256 among them, and the
\* longer ones end in a parse error.
C27_AtMost257 ==
    \A n \in ListLengths :
        /\ ListEnded("params", "a", n) =>
              /\ unit.r.ok <=> n <= MaxParameters + 1
              /\ unit.r.ok => Len(unit.r.v) = n
              /\ ~unit.r.ok =>
                    unit.r.v.msg = "The maximum number of parameters is 256."
        /\ ListEnded("arguments", "1", n) =>
              /\ unit.r.ok <=> n <= MaxArguments + 1
              /\ unit.r.ok => Len(unit.r.v) = n
              /\ ~unit.r.ok =>
                    unit.r.v.msg = "The maximum number of arguments is 256."

\* a list of 257 parameters has been accepted
C27_Accepted257Parameters ==
    /\ ListEnded("params", "a", MaxParameters + 1)
    /\ unit.r.ok /\ Len(unit.r.v) = MaxParameters + 1

\* Parser::parse has run on the text ws to the end
ParseEnded(ws) ==
    /\ unit.k = "Parser" /\ unit.goal = "parse"
    /\ unit.r.p.tokens = Words(ws) /\ is_at_end(unit.r.p)

\* the statement a well-formed declaration is
DeclarationTree(ws) ==
    CASE ws = PrintOne -> PrintStmt(Literal(Num(1)))
      [] ws = LetAOne -> MultiVarStmt(<<VarStmt("a", Literal(Num(1)))>>)
      [] OTHER -> MultiVarStmt(<<VarStmt("a", NoNode)>>)

\* C38: after a parse error synchronize leaves the parser immediately after
\* a `;`, or at (not past) a keyword that begins a declaration or a
\* statement, or at Eof, so that a well-formed declaration that follows the
\* erroneous text is parsed in full.
C38_SynchronizeStopsAtBoundary ==
    (unit.k = "Parser" /\ unit.goal = "parse") =>
        /\ \A i \in 1..Len(unit.r.synced) :
              LET at == [unit.r.p EXCEPT !.current = unit.r.synced[i]]
              IN  \/ is_at_end(at)
                  \/ peek(at).token_type \in SyncKeywords
                  \/ at.current > 0 /\ previous(at).token_type = "Semicolon"
        /\ \A bad \in ErroneousTexts, good \in FollowingDeclarations :
              ParseEnded(bad \o good) =>
                  /\ Len(unit.r.errors) = 1
                  /\ unit.r.v = <<DeclarationTree(good)>>

\* what holds of synchronize: it leaves the parser immediately after a `;`
\* or immediately after one of the keywords, or at Eof; and a well-formed
\* declaration that follows a `;` which ends the erroneous text is parsed
\* in full
C38_SynchronizeStopsAfterKeyword ==
    (unit.k = "Parser" /\ unit.goal = "parse") =>
        /\ \A i \in 1..Len(unit.r.synced) :
              LET at == [unit.r.p EXCEPT !.current = unit.r.synced[i]]
              IN  \/ is_at_end(at)
                  \/ at.current > 0
                        /\ previous(at).token_type
                              \in SyncKeywords \cup {"Semicolon"}
        /\ \A bad \in {<<"1", "1", ";">>, <<"=", ";">>},
              good \in FollowingDeclarations :
              ParseEnded(bad \o good) =>
                  /\ Len(unit.r.errors) = 1
                  /\ unit.r.v = <<DeclarationTree(good)>>

\* `1 1 print 1 ;` has been parsed to the end: synchronize stopped past the
\* `print`, and the statement that follows was taken for the expression
\* statement `1 ;`
C38_PrintSkipped ==
    /\ ParseEnded(<<"1", "1">> \o PrintOne)
    /\ unit.r.synced = <<3>>
    /\ Len(unit.r.errors) = 1
    /\ unit.r.v = <<ExpressionStmt(Literal(Num(1)))>>

(***************************************************************************)
(* SpecBinary: binary_div and binary_mod applied directly to a stack that  *)
(* ends with two operands (vm.rs 95-121). No source text reaches           *)
(* binary_mod: the parser consumes no `%`.                                 *)
(***************************************************************************)
OperandStacks ==
    {below \o <<l, r>> : below \in {<<>>, <<Nil>>, <<Num(1), Str("s")>>},
                         l \in DivModLefts, r \in DivModRights}
OperandsOn(op, s) == [k |-> "Operands", op |-> op, stack |-> s, r |-> NoNode]

\* OpCode::Div => self.binary_div()
BinaryDiv ==
    /\ unit.op = "Slash" /\ unit.r = NoNode
    /\ unit' = [unit EXCEPT !.r = binary_div(unit.stack)]
    /\ UNCHANGED <<driverVars, scopeVars>>

\* OpCode::Mod => self.binary_mod()
BinaryMod ==
    /\ unit.op = "Mod" /\ unit.r = NoNode
    /\ unit' = [unit EXCEPT !.r = binary_mod(unit.stack)]
    /\ UNCHANGED <<driverVars, scopeVars>>

InitBinary ==
    /\ Idle
    /\ unit \in {OperandsOn(op, s) : op \in {"Slash", "Mod"},
                                     s \in OperandStacks}

NextBinary == BinaryDiv \/ BinaryMod

SpecBinary == InitBinary /\ [][NextBinary]_vars

(***************************************************************************)
(* SpecFused: the opcodes AddIGlobal .. ModILocal (vm.rs 314-534) applied  *)
(* to a target and an operand on top of the stack, beside the plain opcode *)
(* on the same two values. No code of the compiler writes these opcodes.   *)
(***************************************************************************)
FusedOps == {"Add", "Sub", "Mul", "Div", "Mod"}
FusedLexeme(op) ==
    CASE op = "Add" -> "+=" [] op = "Sub" -> "-=" [] op = "Mul" -> "*="
      [] op = "Div" -> "/=" [] OTHER -> "%="
OnlyOnNumber(op) ==
    "Operator '" \o FusedLexeme(op) \o "' can only be used on number"

FusedOk(s, g) == [r |-> "ok", stack |-> s, globals |-> g]
FusedErr(s, g, msg, lexeme) ==
    [r |-> "err", stack |-> s, globals |-> g, msg |-> msg, lexeme |-> lexeme]
FusedPanic(s, g) == [r |-> "panic", stack |-> s, globals |-> g]

\* the value an arm computes from two numbers: [r, v], or the error of a
\* zero divisor, or the panic of i64::MIN % -1
FusedValue(op, kind, t, e) ==
    CASE op = "Add" -> [r |-> "ok", v |-> NumAdd(t, e)]
      [] op = "Sub" -> [r |-> "ok", v |-> NumSub(t, e)]
      [] op = "Mul" -> [r |-> "ok", v |-> NumMul(t, e)]
      [] op = "Div" ->
            IF e.n = 0                                   \* divisor == 0.0
            THEN [r |-> "err", msg |-> "divisor cannot be 0.",
                  lexeme |-> IF kind = "Global" THEN "%=" ELSE "/="]
            ELSE [r |-> "ok", v |-> NumDiv(t, e)]
      [] op = "Mod" /\ kind = "Global" ->
            IF AsI64(e) = 0
            THEN [r |-> "err", msg |-> "divisor cannot be 0.",
                  lexeme |-> "%="]
            ELSE IF RemOverflows(AsI64(t), AsI64(e)) THEN [r |-> "panic"]
            ELSE [r |-> "ok", v |-> Num(RemI64(AsI64(t), AsI64(e)))]
      [] OTHER ->                                        \* ModILocal
            IF e.n = 0                                   \* divisor == 0.0
            THEN [r |-> "err", msg |-> "divisor cannot be 0.",
                  lexeme |-> "%="]
            ELSE [r |-> "ok", v |-> NumDiv(t, e)]  \* target.get_num()? / divisor

\* OpCode::AddIGlobal(name) .. OpCode::ModIGlobal(name)
FusedGlobal(op, name, s, g) ==
    IF name \notin DOMAIN g
    THEN FusedErr(s, g, UndefinedVariable(name), name)
    ELSE IF ~is_num(g[name])
    THEN FusedErr(s, g, OnlyOnNumber(op), FusedLexeme(op))
    ELSE IF Len(s) = 0 THEN FusedPanic(s, g)            \* stack_top_ref()
    ELSE IF ~is_num(Last(s))
    THEN FusedErr(s, g, OnlyOnNumber(op), FusedLexeme(op))
    ELSE LET v == FusedValue(op, "Global", g[name], Last(s))
         IN  CASE v.r = "ok" -> FusedOk(s, [g EXCEPT ![name] = v.v])
               [] v.r = "err" -> FusedErr(s, g, v.msg, v.lexeme)
               [] OTHER -> FusedPanic(s, g)

\* OpCode::AddILocal(slot) .. OpCode::ModILocal(slot)
FusedLocal(op, slot, base, s) ==
    IF slot + base >= Len(s) THEN FusedPanic(s, <<>>)   \* self.stack[slot]
    ELSE IF ~(is_num(s[slot + base + 1]) /\ is_num(Last(s)))
    THEN FusedErr(s, <<>>, OnlyOnNumber(op), FusedLexeme(op))
    ELSE LET v == FusedValue(op, "Local", s[slot + base + 1], Last(s))
         IN  CASE v.r = "ok" ->
                    FusedOk([s EXCEPT ![slot + base + 1] = v.v], <<>>)
               [] v.r = "err" -> FusedErr(s, <<>>, v.msg, v.lexeme)
               [] OTHER -> FusedPanic(s, <<>>)

\* OpCode::Add .. OpCode::Mod on a stack
PlainBinary(op, s) ==
    CASE op = "Add" -> binary_add(s)
      [] op = "Sub" -> binary_sub(s)
      [] op = "Mul" -> binary_multi(s)
      [] op = "Div" -> binary_div(s)
      [] OTHER -> binary_mod(s)

FusedTargets == {Num(7), Num(-7), Num(I64Min), Str("s"), Nil}
FusedOperands == {Num(2), Num(0), Num(-1), Rat(1, 2), Str("s")}
FusedBelows == {<<Nil>>, <<Num(1)>>}
FusedOn(op, kind, below, t, e) ==
    [k |-> "Fused", op |-> op, kind |-> kind, below |-> below,
     target |-> t, operand |-> e, r |-> NoNode]

\* the opcode with the global x as its target, the operand on top of the
\* stack
FusedGlobalStep ==
    /\ unit.kind = "Global" /\ unit.r = NoNode
    /\ unit' = [unit EXCEPT
                  !.r = FusedGlobal(unit.op, "x",
                                    Append(unit.below, unit.operand),
                                    [n \in {"x"} |-> unit.target])]
    /\ UNCHANGED <<driverVars, scopeVars>>

\* the opcode with the local above the values below as its target
FusedLocalStep ==
    /\ unit.kind = "Local" /\ unit.r = NoNode
    /\ unit' = [unit EXCEPT
                  !.r = FusedLocal(unit.op, Len(unit.below), 0,
                                   unit.below
                                      \o <<unit.target, unit.operand>>)]
    /\ UNCHANGED <<driverVars, scopeVars>>

InitFused ==
    /\ Idle
    /\ unit \in {FusedOn(op, kind, below, t, e) :
                    op \in FusedOps, kind \in {"Global", "Local"},
                    below \in FusedBelows,
                    t \in FusedTargets, e \in FusedOperands}

NextFused == FusedGlobalStep \/ FusedLocalStep

SpecFused == InitFused /\ [][NextFused]_vars

\* a fused opcode has been applied; the value its target holds afterwards;
\* what the plain opcode returns for the same target and operand
FusedApplied == unit.k = "Fused" /\ unit.r # NoNode
FusedStored ==
    IF unit.kind = "Global" THEN unit.r.globals["x"]
    ELSE unit.r.stack[Len(unit.below) + 1]
PlainResult ==
    PlainBinary(unit.op, unit.below \o <<unit.target, unit.operand>>)

\* C37: a fused opcode applied to a target that holds t, with e on top of
\* the stack, stores in the target the value the plain opcode produces for
\* (t, e), and raises a runtime error exactly when the plain opcode does;
\* so the Local and the Global variant of an operation agree.
C37_FusedIsPlain ==
    FusedApplied =>
        /\ unit.r.r = PlainResult.r
        /\ unit.r.r = "ok" => FusedStored = Last(PlainResult.stack)

\* C37 for Sub, Mul and Div, and for Mod on a global
C37_FusedIsPlainOutsideAddAndModLocal ==
    (/\ FusedApplied
     /\ unit.op # "Add"
     /\ ~(unit.op = "Mod" /\ unit.kind = "Local")) =>
        /\ unit.r.r = PlainResult.r
        /\ unit.r.r = "ok" => FusedStored = Last(PlainResult.stack)

\* ModILocal on the target 7 with the operand 2 has stored 7/2, where Mod
\* gives 1
C37_ModILocalStoredQuotient ==
    /\ FusedApplied /\ unit.op = "Mod" /\ unit.kind = "Local"
    /\ unit.target = Num(7) /\ unit.operand = Num(2)
    /\ FusedStored = Rat(7, 2)
    /\ PlainResult.r = "ok" /\ Last(PlainResult.stack) = Num(1)

====
